---- MODULE Spec2Model ----
(***************************************************************************)
(* A model of the llmrag retrieval-augmented query pipeline:               *)
(*   - HtmlTextSplitter.split        (llmrag/chunking/html_splitter.py)    *)
(*   - ChromaVectorStore.retrieve    (llmrag/retrievers/chroma_store.py)   *)
(*   - RAGPipeline.run               (llmrag/pipelines/rag_pipeline.py)    *)
(*   - ChapterRAG.load_chapter / ask (llmrag/chapter_rag.py)               *)
(*   - ingest_html_file              (llmrag/ingestion/ingest_html.py)     *)
(* Python strings are sequences of one-character strings, so that len(),   *)
(* strip(), split(','), ','.join(), startswith() and the regular           *)
(* expressions are computed character by character.                        *)
(***************************************************************************)
EXTENDS Integers, Sequences, FiniteSets, TLC

VARIABLES
    \* HtmlTextSplitter.split
    elements, chunk_size, split_pc, pos,
    chunks, current_chunk, current_paragraph_ids, current_element_types,
    owner,
    \* ChromaVectorStore: the items of the collection, and the last retrieve call
    collection, retrieval,
    \* RAGPipeline: the last run call
    run_call,
    \* ChapterRAG: the registry self.pipelines, the database ./chroma_db, the
    \* last load_chapter/ask call; for whom each pipeline was built and for
    \* whom the items of each collection were stored
    pipelines, chroma_db, last_call, built_for, stored_for,
    \* how often each collection name was deleted from the database
    deletions,
    \* the last direct call of ingest_html_file
    ingest_call,
    \* ChapterManager: self.loaded_chapters, self.chapter_metadata, the last
    \* load_chapter/query_chapter call
    loaded_chapters, chapter_metadata, manager_call,
    \* TransformersModel: the last generate call
    generate_call,
    \* the command line: the last load-chapter command
    cli_call,
    \* IPCCPipeline: the last _process_source call
    process_call,
    \* FAISSVectorStore: self.index, self.documents, the last search call
    faiss_index, faiss_documents, search_call

splitVars == <<elements, chunk_size, split_pc, pos, chunks, current_chunk,
               current_paragraph_ids, current_element_types, owner>>

storeVars == <<collection, retrieval>>

runVars == <<run_call>>

chapterVars == <<pipelines, chroma_db, last_call, built_for, stored_for, deletions>>

ingestVars == <<ingest_call>>

managerVars == <<loaded_chapters, chapter_metadata, manager_call>>

modelVars == <<generate_call>>

cliVars == <<cli_call>>

stageVars == <<process_call>>

faissVars == <<faiss_index, faiss_documents, search_call>>

vars == <<splitVars, storeVars, runVars, chapterVars, ingestVars, managerVars,
          modelVars, cliVars, stageVars, faissVars>>

\* what a step of one component leaves alone
notSplitVars == <<storeVars, runVars, chapterVars, ingestVars, managerVars, modelVars, cliVars,
    stageVars, faissVars>>
notStoreVars == <<splitVars, runVars, chapterVars, ingestVars, managerVars, modelVars, cliVars,
    stageVars, faissVars>>
notRunVars == <<splitVars, chapterVars, ingestVars, managerVars, modelVars, cliVars,
    stageVars, faissVars>>
notChapterVars == <<splitVars, storeVars, runVars, ingestVars, managerVars, modelVars, cliVars,
    stageVars, faissVars>>
notIngestVars == <<splitVars, storeVars, runVars, pipelines, last_call, built_for,
                   stored_for, deletions, managerVars, modelVars, cliVars,
    stageVars, faissVars>>
notManagerVars == <<splitVars, storeVars, runVars, pipelines, last_call, built_for,
                    stored_for, deletions, ingestVars, modelVars, cliVars,
    stageVars, faissVars>>
notModelVars == <<splitVars, storeVars, runVars, chapterVars, ingestVars, managerVars,
                  cliVars,
    stageVars, faissVars>>
notStageVars == <<splitVars, storeVars, runVars, chapterVars, ingestVars, managerVars,
                  modelVars, cliVars, faissVars>>
notFaissVars == <<splitVars, storeVars, runVars, chapterVars, ingestVars, managerVars,
                  modelVars, cliVars, stageVars>>
notCliVars == <<splitVars, storeVars, runVars, pipelines, last_call, built_for,
                stored_for, deletions, ingestVars, managerVars, modelVars,
    stageVars, faissVars>>

----------------------------------------------------------------------------
(* Bounds of the model *)

\* longest document (number of heading/paragraph elements) given to split
MaxElems == 3
\* largest chunk-size budget tried on the small documents
MaxChunkSize == 6
\* largest number of items in a collection that is queried
MaxIndex == 3
\* largest top_k a caller asks for
MaxTopK == 3
\* largest number of items the database holds after a direct ingestion
MaxStored == 3
\* largest number of documents add_documents handles before collection.add
\* raises
MaxAddFailure == 2
\* largest number of collections deleted from the database
MaxDeletes == 1
\* largest number of vectors, and of documents, a FAISSVectorStore holds
MaxVectors == 3

----------------------------------------------------------------------------
(* Python string primitives *)

Space == " "
Comma == ","

IsSpace(c) == c = Space

RECURSIVE LStrip(_)
LStrip(s) ==
    IF s # <<>> /\ IsSpace(Head(s)) THEN LStrip(Tail(s)) ELSE s

RECURSIVE RStrip(_)
RStrip(s) ==
    IF s # <<>> /\ IsSpace(s[Len(s)]) THEN RStrip(SubSeq(s, 1, Len(s) - 1)) ELSE s

\* str.strip()
Strip(s) == RStrip(LStrip(s))

\* sep.join(parts)
RECURSIVE Join(_, _)
Join(parts, sep) ==
    IF parts = <<>> THEN <<>>
    ELSE IF Len(parts) = 1 THEN parts[1]
    ELSE parts[1] \o sep \o Join(Tail(parts), sep)

\* str.split(sep) for a one-character separator: always at least one piece
RECURSIVE SplitOn(_, _)
SplitOn(s, c) ==
    IF \A i \in 1..Len(s) : s[i] # c THEN <<s>>
    ELSE LET k == CHOOSE i \in 1..Len(s) :
                      s[i] = c /\ \A j \in 1..(i - 1) : s[j] # c
         IN <<SubSeq(s, 1, k - 1)>> \o SplitOn(SubSeq(s, k + 1, Len(s)), c)

\* [x for x in xs if x]: the non-empty strings of a list
RECURSIVE NonEmpty(_)
NonEmpty(ss) ==
    IF ss = <<>> THEN <<>>
    ELSE (IF Head(ss) # <<>> THEN <<Head(ss)>> ELSE <<>>) \o NonEmpty(Tail(ss))

\* str.startswith(prefix)
StartsWith(s, prefix) ==
    Len(prefix) <= Len(s) /\ SubSeq(s, 1, Len(prefix)) = prefix

----------------------------------------------------------------------------
(* HtmlTextSplitter.split: the elements the XPath query returns *)

Elem(tag, text, has_id, id) ==
    [tag |-> tag, text |-> text, has_id |-> has_id, id |-> id]

\* element.text_content().strip()
ElemText(e) == Strip(e.text)

\* `if element_id:` -- the attribute is present and not the empty string
DeclaresId(e) == e.has_id /\ e.id # <<>>

\* a small pool of heading and paragraph elements: with and without id, an
\* empty id attribute, whitespace-only text, inner and outer whitespace
ElementPool ==
    { Elem(<<"h", "1">>, <<"a", "b">>, FALSE, <<>>),
      Elem(<<"p">>, <<" ", "a", " ", "b", " ">>, TRUE, <<"p">>),
      Elem(<<"p">>, <<" ">>, TRUE, <<"q">>),
      Elem(<<"p">>, <<"a", "b", "c", "d">>, TRUE, <<"q">>),
      Elem(<<"h", "2">>, <<"a">>, TRUE, <<>>),
      Elem(<<"p">>, <<"b">>, TRUE, <<"p", ",", "q">>) }

RECURSIVE SeqsUpTo(_, _)
SeqsUpTo(S, n) ==
    IF n = 0 THEN {<<>>}
    ELSE LET shorter == SeqsUpTo(S, n - 1)
         IN shorter \cup {Append(s, x) : s \in {t \in shorter : Len(t) = n - 1}, x \in S}

Documents == SeqsUpTo(ElementPool, MaxElems)

\* <h1>Intro</h1><p id="p1">Large language models generate text.</p>
\* <h2>Uses</h2><p id="p2">Used in chatbots.</p>
ScenarioDocument ==
    << Elem(<<"h", "1">>, <<"I", "n", "t", "r", "o">>, FALSE, <<>>),
       Elem(<<"p">>,
            <<"L", "a", "r", "g", "e", " ", "l", "a", "n", "g", "u", "a", "g", "e", " ",
              "m", "o", "d", "e", "l", "s", " ", "g", "e", "n", "e", "r", "a", "t", "e",
              " ", "t", "e", "x", "t", ".">>,
            TRUE, <<"p", "1">>),
       Elem(<<"h", "2">>, <<"U", "s", "e", "s">>, FALSE, <<>>),
       Elem(<<"p">>,
            <<"U", "s", "e", "d", " ", "i", "n", " ", "c", "h", "a", "t", "b", "o", "t",
              "s", ".">>,
            TRUE, <<"p", "2">>) >>

ScenarioChunkSize == 100

\* Document(page_content=current_chunk, metadata={...})
MakeChunk(text, ids, types, index) ==
    [page_content |-> text,
     metadata |-> [chunk_index |-> index,
                   paragraph_ids |-> Join(ids, <<Comma>>),
                   element_types |-> Join(types, <<Comma>>)]]

\* mutant of Fits: the separator is not counted
FitsNoSeparator(cur, text, size) == Len(cur) + Len(text) <= size

\* len(current_chunk) + len(text) + 1 <= self.chunk_size
Fits(cur, text, size) == Len(cur) + Len(text) + 1 <= size

\* mutant of Extended: the texts are concatenated without the separator
ExtendedNoSpace(cur, text) == cur \o text

\* current_chunk += (" " + text) if current_chunk else text
Extended(cur, text) == IF cur # <<>> THEN cur \o <<Space>> \o text ELSE text

\* mutant of IdList: `if element_id is not None` -- an empty id is recorded
IdListPresent(e) == IF e.has_id THEN <<e.id>> ELSE <<>>

\* [element_id] if element_id else []
IdList(e) == IF DeclaresId(e) THEN <<e.id>> ELSE <<>>

SplitInit ==
    /\ \/ elements \in Documents /\ chunk_size \in 0..MaxChunkSize
       \/ elements = ScenarioDocument /\ chunk_size = ScenarioChunkSize
    /\ split_pc = "loop"
    /\ pos = 1
    /\ chunks = <<>>
    /\ current_chunk = <<>>
    /\ current_paragraph_ids = <<>>
    /\ current_element_types = <<>>
    /\ owner = <<>>

\* no split is running (the specifications of the other components)
SplitIdle ==
    /\ elements = <<>> /\ chunk_size = 0 /\ split_pc = "idle" /\ pos = 1
    /\ chunks = <<>> /\ current_chunk = <<>> /\ current_paragraph_ids = <<>>
    /\ current_element_types = <<>> /\ owner = <<>>

\* `if not text: continue`
SplitSkipEmpty ==
    /\ split_pc = "loop" /\ pos <= Len(elements)
    /\ ElemText(elements[pos]) = <<>>
    /\ pos' = pos + 1
    /\ owner' = Append(owner, 0)
    /\ UNCHANGED <<elements, chunk_size, split_pc, chunks, current_chunk,
                   current_paragraph_ids, current_element_types>>
    /\ UNCHANGED notSplitVars

\* the element fits: it is added to the current chunk
SplitAppend ==
    /\ split_pc = "loop" /\ pos <= Len(elements)
    /\ LET e == elements[pos]
           text == ElemText(e)
       IN /\ text # <<>>
          /\ Fits(current_chunk, text, chunk_size)
          /\ current_chunk' = Extended(current_chunk, text)
          /\ current_paragraph_ids' = current_paragraph_ids \o IdList(e)
          /\ current_element_types' = Append(current_element_types, e.tag)
    /\ pos' = pos + 1
    /\ owner' = Append(owner, Len(chunks) + 1)
    /\ UNCHANGED <<elements, chunk_size, split_pc, chunks>>
    /\ UNCHANGED notSplitVars

\* the element does not fit: the current chunk is saved and a new one started
SplitFlush ==
    /\ split_pc = "loop" /\ pos <= Len(elements)
    /\ LET e == elements[pos]
           text == ElemText(e)
       IN /\ text # <<>>
          /\ ~Fits(current_chunk, text, chunk_size)
          /\ chunks' = Append(chunks, MakeChunk(current_chunk, current_paragraph_ids,
                                                current_element_types, Len(chunks)))
          /\ current_chunk' = text
          /\ current_paragraph_ids' = IdList(e)
          /\ current_element_types' = <<e.tag>>
    /\ pos' = pos + 1
    /\ owner' = Append(owner, Len(chunks) + 2)
    /\ UNCHANGED <<elements, chunk_size, split_pc>>
    /\ UNCHANGED notSplitVars

\* mutant of SplitLastChunk: the trailing buffer is not saved
SplitLastChunkDropped ==
    /\ split_pc = "loop" /\ pos > Len(elements)
    /\ current_chunk # <<>>
    /\ split_pc' = "done"
    /\ UNCHANGED <<elements, chunk_size, pos, chunks, current_chunk,
                   current_paragraph_ids, current_element_types, owner>>
    /\ UNCHANGED notSplitVars

\* after the loop: `if current_chunk:` the last chunk is saved
SplitLastChunk ==
    /\ split_pc = "loop" /\ pos > Len(elements)
    /\ current_chunk # <<>>
    /\ chunks' = Append(chunks, MakeChunk(current_chunk, current_paragraph_ids,
                                          current_element_types, Len(chunks)))
    /\ split_pc' = "done"
    /\ UNCHANGED <<elements, chunk_size, pos, current_chunk, current_paragraph_ids,
                   current_element_types, owner>>
    /\ UNCHANGED notSplitVars

\* after the loop with an empty buffer: `return chunks`
SplitReturn ==
    /\ split_pc = "loop" /\ pos > Len(elements)
    /\ current_chunk = <<>>
    /\ split_pc' = "done"
    /\ UNCHANGED <<elements, chunk_size, pos, chunks, current_chunk,
                   current_paragraph_ids, current_element_types, owner>>
    /\ UNCHANGED notSplitVars

SplitNext ==
    \/ SplitSkipEmpty
    \/ SplitAppend
    \/ SplitFlush
    \/ SplitLastChunk
    \/ SplitReturn

\* split(html) as a function of the element list: the loop of lines 113-144
\* and the last chunk of lines 147-153
RECURSIVE SplitFrom(_, _, _, _, _, _)
SplitFrom(els, size, done, cur, ids, types) ==
    IF els = <<>>
    THEN IF cur # <<>> THEN Append(done, MakeChunk(cur, ids, types, Len(done))) ELSE done
    ELSE LET e == Head(els)
             text == ElemText(e)
         IN IF text = <<>> THEN SplitFrom(Tail(els), size, done, cur, ids, types)
            ELSE IF Fits(cur, text, size)
            THEN SplitFrom(Tail(els), size, done, Extended(cur, text),
                           ids \o IdList(e), Append(types, e.tag))
            ELSE SplitFrom(Tail(els), size,
                           Append(done, MakeChunk(cur, ids, types, Len(done))),
                           text, IdList(e), <<e.tag>>)

Split(els, size) == SplitFrom(els, size, <<>>, <<>>, <<>>, <<>>)


----------------------------------------------------------------------------
(* ChromaVectorStore.retrieve *)

Digits == {"0", "1", "2", "3", "4", "5", "6", "7", "8", "9"}

UpperCase == <<"A", "B", "C", "D", "E", "F", "G", "H", "I", "J", "K", "L", "M",
               "N", "O", "P", "Q", "R", "S", "T", "U", "V", "W", "X", "Y", "Z">>
LowerCase == <<"a", "b", "c", "d", "e", "f", "g", "h", "i", "j", "k", "l", "m",
               "n", "o", "p", "q", "r", "s", "t", "u", "v", "w", "x", "y", "z">>

LowerChar(c) ==
    IF \E i \in 1..Len(UpperCase) : UpperCase[i] = c
    THEN LowerCase[CHOOSE i \in 1..Len(UpperCase) : UpperCase[i] = c]
    ELSE c

\* str.lower()
Lower(s) == [i \in 1..Len(s) |-> LowerChar(s[i])]

\* the position after the longest run of characters of class cls that
\* starts at position i (i itself when there is none): a greedy \d+ or \s+
RECURSIVE RunEnd(_, _, _)
RunEnd(s, i, cls) ==
    IF i <= Len(s) /\ s[i] \in cls THEN RunEnd(s, i + 1, cls) ELSE i

\* (?:\.\d+)* from position i: the position after the last group
RECURSIVE DotGroupsEnd(_, _)
DotGroupsEnd(s, i) ==
    IF i <= Len(s) /\ s[i] = "." /\ RunEnd(s, i + 1, Digits) > i + 1
    THEN DotGroupsEnd(s, RunEnd(s, i + 1, Digits))
    ELSE i

\* \d+\.\d+(?:\.\d+)* matched at position i: the position after the match,
\* or 0 when the pattern does not match there
NumberEnd(s, i) ==
    LET d == RunEnd(s, i, Digits)
    IN IF d > i /\ DotGroupsEnd(s, d) > d THEN DotGroupsEnd(s, d) ELSE 0

\* r'\((\d+\.\d+(?:\.\d+)*)\)' matched at position i: [from, to) of group 1
ParenMatchAt(s, i) ==
    IF i <= Len(s) /\ s[i] = "(" /\ NumberEnd(s, i + 1) # 0
       /\ NumberEnd(s, i + 1) <= Len(s) /\ s[NumberEnd(s, i + 1)] = ")"
    THEN <<i + 1, NumberEnd(s, i + 1)>>
    ELSE <<>>

SectionWord == <<"s", "e", "c", "t", "i", "o", "n">>

\* r'(?:section\s+)?(\d+\.\d+(?:\.\d+)*)' with re.IGNORECASE matched at
\* position i: [from, to) of group 1
SectionMatchAt(s, i) ==
    LET w == i + Len(SectionWord)
        n == RunEnd(s, w, {Space})
    IN IF /\ w - 1 <= Len(s)
          /\ Lower(SubSeq(s, i, w - 1)) = SectionWord
          /\ n > w
          /\ NumberEnd(s, n) # 0
       THEN <<n, NumberEnd(s, n)>>
       ELSE IF NumberEnd(s, i) # 0 THEN <<i, NumberEnd(s, i)>> ELSE <<>>

\* re.search: group 1 of the leftmost match, <<>> for None
ParenSearch(s) ==
    IF \E i \in 1..Len(s) : ParenMatchAt(s, i) # <<>>
    THEN LET i == CHOOSE j \in 1..Len(s) :
                      /\ ParenMatchAt(s, j) # <<>>
                      /\ \A h \in 1..(j - 1) : ParenMatchAt(s, h) = <<>>
             g == ParenMatchAt(s, i)
         IN SubSeq(s, g[1], g[2] - 1)
    ELSE <<>>

SectionSearch(s) ==
    IF \E i \in 1..Len(s) : SectionMatchAt(s, i) # <<>>
    THEN LET i == CHOOSE j \in 1..Len(s) :
                      /\ SectionMatchAt(s, j) # <<>>
                      /\ \A h \in 1..(j - 1) : SectionMatchAt(s, h) = <<>>
             g == SectionMatchAt(s, i)
         IN SubSeq(s, g[1], g[2] - 1)
    ELSE <<>>

\* the two re.search calls of _extract_section_query: the section number,
\* <<>> for None
SearchSectionNumber(query) ==
    IF ParenSearch(query) # <<>> THEN ParenSearch(query) ELSE SectionSearch(query)

\* metadata values: None (stored without metadata), {} and dictionaries
NoneMetadata == [is_none |-> TRUE]
EmptyMetadata == [is_empty |-> TRUE]

\* `if metadata`: neither None nor {}
Truthy(md) == md # NoneMetadata /\ md # EmptyMetadata

ChunkMetadata(index, ids) ==
    [chunk_index |-> index, paragraph_ids |-> ids, element_types |-> <<"p">>]

Item(text, md) == [document |-> text, metadata |-> md]

\* items a collection may hold: chunks of the splitter (paragraph_ids a
\* comma-joined string, possibly empty), a test document with other
\* metadata, a text added without metadata
ItemPool ==
    { Item(<<"t", "1">>, ChunkMetadata(0, <<"4", ".", "1", ".", "2", ",", "5", ".", "1">>)),
      Item(<<"t", "2">>, ChunkMetadata(1, <<"5", ".", "1", ",", ",", " ", "4", ".", "1">>)),
      Item(<<"t", "3">>, ChunkMetadata(2, <<"4", ".", "1", "0">>)),
      Item(<<"t", "1">>, ChunkMetadata(3, <<>>)),
      Item(<<"t", "2">>, [source |-> <<"x">>]),
      Item(<<"t", "3">>, NoneMetadata) }

Collections == SeqsUpTo(ItemPool, MaxIndex)

\* the queries asked
Queries ==
    { <<"(", "4", ".", "1", ")", "?">>,
      <<"S", "e", "c", "t", "i", "o", "n", " ", "4", ".", "1">>,
      <<"4", ".", "1", " ", "s", "u", "m", "m", "a", "r", "y">>,
      <<"O", "v", "e", "r", "v", "i", "e", "w">>,
      <<"w", "h", "y">>,
      <<"v", "2", " ", "(", "x", ")", " ", "4", ".">>,
      <<"i", "n", " ", "5", ".", "1", " ", "(", "4", ".", "1", ")">> }

\* query + " executive summary" (rag_pipeline.py line 45)
ExecutiveSummarySuffix ==
    <<" ", "e", "x", "e", "c", "u", "t", "i", "v", "e", " ", "s", "u", "m", "m", "a", "r", "y">>

\* every query text that reaches the retriever
RetrieverQueries == Queries \cup {q \o ExecutiveSummarySuffix : q \in Queries}

\* the section number of each query text (the regular expressions are
\* evaluated once per text)
SectionNumbers == [q \in RetrieverQueries |-> SearchSectionNumber(q)]

\* ChromaVectorStore._extract_section_query
ExtractSectionQuery(query) == SectionNumbers[query]

\* Document(page_content=..., metadata=...)
Doc(text, md) == [page_content |-> text, metadata |-> md]

RECURSIVE AnyStartsWith(_, _)
AnyStartsWith(ids_list, section_number) ==
    /\ ids_list # <<>>
    /\ \/ StartsWith(Strip(Head(ids_list)), section_number)
       \/ AnyStartsWith(Tail(ids_list), section_number)

\* the test of the scan on one item (chroma_store.py lines 130-142)
SectionMatches(item, section_number) ==
    /\ Truthy(item.metadata)
    /\ "paragraph_ids" \in DOMAIN item.metadata
    /\ item.metadata.paragraph_ids # <<>>
    /\ AnyStartsWith(SplitOn(item.metadata.paragraph_ids, Comma), section_number)

\* matching_docs after the scan of all items
RECURSIVE MatchingDocs(_, _)
MatchingDocs(items, section_number) ==
    IF items = <<>> THEN <<>>
    ELSE (IF SectionMatches(Head(items), section_number)
          THEN <<Doc(Head(items).document, Head(items).metadata)>>
          ELSE <<>>) \o MatchingDocs(Tail(items), section_number)

Min(a, b) == IF a <= b THEN a ELSE b

\* mutant of Prefix: the slice is forgotten
PrefixAll(xs, n) == xs

\* xs[:n] for n >= 0
Prefix(xs, n) == SubSeq(xs, 1, Min(n, Len(xs)))

Reverse(xs) == [i \in 1..Len(xs) |-> xs[Len(xs) + 1 - i]]

RECURSIVE SemanticDocs(_)
SemanticDocs(items) ==
    IF items = <<>> THEN <<>>
    ELSE <<Doc(Head(items).document,
               IF Head(items).metadata # NoneMetadata THEN Head(items).metadata
               ELSE EmptyMetadata)>> \o SemanticDocs(Tail(items))

\* _retrieve_by_semantic: collection.query returns the n_results nearest
\* items; the order of nearness is the embedding's (env.nearest_last: the
\* items are ranked from the last to the first instead of first to last)
RetrieveBySemantic(items, query, top_k, env) ==
    SemanticDocs(Prefix(IF env.nearest_last THEN Reverse(items) ELSE items, top_k))

SemCall(query, top_k, raised) == [query |-> query, top_k |-> top_k, raised |-> raised]

Outcome(status, docs, error, sem_calls) ==
    [status |-> status, docs |-> docs, error |-> error, sem_calls |-> sem_calls]

\* mutant of FallbackInExcept: the except block re-raises the scan's error
FallbackReraises(items, section_number, top_k, env, before) ==
    Outcome("raised", <<>>, "scan", before)

\* the call of _retrieve_by_semantic in the except block (line 153), after
\* `before` earlier calls: its result is returned, its error propagates
FallbackInExcept(items, section_number, top_k, env, before) ==
    IF env.sem_failures > Len(before)
    THEN Outcome("raised", <<>>, "semantic",
                 Append(before, SemCall(section_number, top_k, TRUE)))
    ELSE Outcome("ok", RetrieveBySemantic(items, section_number, top_k, env), "none",
                 Append(before, SemCall(section_number, top_k, FALSE)))

\* _retrieve_by_section. env.scan_fails: collection.get() raises;
\* env.sem_failures: how many of the first semantic searches raise.
RetrieveBySection(items, section_number, top_k, env) ==
    IF env.scan_fails
    THEN FallbackInExcept(items, section_number, top_k, env, <<>>)
    ELSE LET matching_docs == MatchingDocs(items, section_number)
    IN
    IF matching_docs # <<>>
    THEN Outcome("ok", Prefix(matching_docs, top_k), "none", <<>>)
    ELSE IF env.sem_failures > 0
    THEN \* line 149 raised inside the try block: the except block runs
         FallbackInExcept(items, section_number, top_k, env,
                          <<SemCall(section_number, top_k, TRUE)>>)
    ELSE Outcome("ok", RetrieveBySemantic(items, section_number, top_k, env), "none",
                 <<SemCall(section_number, top_k, FALSE)>>)

\* retrieve(query, top_k)
Retrieve(items, query, top_k, env) ==
    LET section_match == ExtractSectionQuery(query)
    IN
    IF section_match # <<>>
    THEN RetrieveBySection(items, section_match, top_k, env)
    ELSE IF env.sem_failures > 0
    THEN Outcome("raised", <<>>, "semantic", <<SemCall(query, top_k, TRUE)>>)
    ELSE Outcome("ok", RetrieveBySemantic(items, query, top_k, env), "none",
                 <<SemCall(query, top_k, FALSE)>>)

\* what the store's environment does during one call
Envs == [scan_fails : BOOLEAN, sem_failures : 0..2, nearest_last : BOOLEAN]

NoRetrieval == [called |-> FALSE]

StoreIdle == collection = <<>> /\ retrieval = NoRetrieval

RetrieveInit ==
    /\ collection \in Collections
    /\ retrieval = NoRetrieval

\* one call of ChromaVectorStore.retrieve, up to its return or raise (the
\* program is single-threaded: no call starts while one is outstanding)
RetrieveCall ==
    /\ retrieval = NoRetrieval
    /\ \E query \in Queries, top_k \in 1..MaxTopK, env \in Envs :
           retrieval' = [called |-> TRUE, query |-> query, top_k |-> top_k, env |-> env,
                         out |-> Retrieve(collection, query, top_k, env)]
    /\ UNCHANGED <<collection, notStoreVars>>

\* the caller has taken the result (or the exception)
RetrieveReturn ==
    /\ retrieval # NoRetrieval
    /\ retrieval' = NoRetrieval
    /\ UNCHANGED <<collection, notStoreVars>>

RetrieveNext == RetrieveCall \/ RetrieveReturn

----------------------------------------------------------------------------
(* RAGPipeline.run *)

\* top_k=2 of an executive-summary retrieval
ExecutiveSummaryTopK == 2

\* executive_summary_keywords
ExecutiveSummaryKeywords ==
    { <<"e", "x", "e", "c", "u", "t", "i", "v", "e", " ", "s", "u", "m", "m", "a", "r", "y">>,
      <<"s", "u", "m", "m", "a", "r", "y">>,
      <<"o", "v", "e", "r", "v", "i", "e", "w">>,
      <<"m", "a", "i", "n", " ", "f", "i", "n", "d", "i", "n", "g", "s">>,
      <<"k", "e", "y", " ", "c", "o", "n", "c", "l", "u", "s", "i", "o", "n", "s">>,
      <<"m", "a", "i", "n", " ", "c", "o", "n", "c", "l", "u", "s", "i", "o", "n", "s">>,
      <<"s", "u", "m", "m", "a", "r", "y", " ", "o", "f", " ", "f", "i", "n", "d", "i", "n", "g", "s">> }

\* `keyword in text`
Contains(text, keyword) ==
    \E i \in 1..(Len(text) - Len(keyword) + 1) :
        SubSeq(text, i, i + Len(keyword) - 1) = keyword

\* any(keyword in query_lower for keyword in executive_summary_keywords)
HasSummaryKeyword(query) ==
    \E keyword \in ExecutiveSummaryKeywords : Contains(Lower(query), keyword)

\* the keyword test of each query (evaluated once per text)
SummaryQueries == {q \in Queries : HasSummaryKeyword(q)}

\* RAGPipeline._is_executive_summary_query
IsExecutiveSummaryQuery(query) == query \in SummaryQueries

\* RAGPipeline._extract_section_query: the same two regular expressions
PipelineExtractSectionQuery(query) == SectionNumbers[query]

\* mutant of Dedup: documents are compared whole, not by their text
RECURSIVE DedupWholeDocs(_, _)
DedupWholeDocs(documents, seen) ==
    IF documents = <<>> THEN <<>>
    ELSE IF Head(documents) \in seen THEN DedupWholeDocs(Tail(documents), seen)
    ELSE <<Head(documents)>> \o DedupWholeDocs(Tail(documents), seen \cup {Head(documents)})

\* the deduplication loop (lines 50-55): unique_docs, given `seen`
RECURSIVE Dedup(_, _)
Dedup(documents, seen) ==
    IF documents = <<>> THEN <<>>
    ELSE IF Head(documents).page_content \in seen THEN Dedup(Tail(documents), seen)
    ELSE <<Head(documents)>>
             \o Dedup(Tail(documents), seen \cup {Head(documents).page_content})

Newlines == <<"\n", "\n">>

\* "\n\n".join(doc.page_content for doc in unique_docs)
RECURSIVE ContentsOf(_)
ContentsOf(docs) ==
    IF docs = <<>> THEN <<>> ELSE <<Head(docs).page_content>> \o ContentsOf(Tail(docs))

Context(unique_docs) == Join(ContentsOf(unique_docs), Newlines)

\* the three prompt templates, with what they embed
Prompt(template, context, query, section_number) ==
    [template |-> template, context |-> context, query |-> query,
     section_number |-> section_number]

\* mutant of SelectPrompt: the executive-summary test comes first
SelectPromptSummaryFirst(context, query) ==
    IF IsExecutiveSummaryQuery(query)
    THEN Prompt("executive_summary", context, query, <<>>)
    ELSE IF PipelineExtractSectionQuery(query) # <<>>
    THEN Prompt("section", context, query, PipelineExtractSectionQuery(query))
    ELSE Prompt("scientific", context, query, <<>>)

\* lines 59-70: section prompt, else executive-summary prompt, else scientific
SelectPrompt(context, query) ==
    LET section_match == PipelineExtractSectionQuery(query)
    IN IF section_match # <<>>
       THEN Prompt("section", context, query, section_match)
       ELSE IF IsExecutiveSummaryQuery(query)
       THEN Prompt("executive_summary", context, query, <<>>)
       ELSE Prompt("scientific", context, query, <<>>)

RECURSIVE StripAll(_)
StripAll(pieces) ==
    IF pieces = <<>> THEN <<>> ELSE <<Strip(Head(pieces))>> \o StripAll(Tail(pieces))

\* mutant of IdsOfDoc: the pieces are not trimmed
IdsOfDocUntrimmed(doc) ==
    IF /\ Truthy(doc.metadata)
       /\ "paragraph_ids" \in DOMAIN doc.metadata
       /\ doc.metadata.paragraph_ids # <<>>
    THEN NonEmpty(SplitOn(doc.metadata.paragraph_ids, Comma))
    ELSE <<>>

\* lines 77-81: [id.strip() for id in ids if id.strip()] of one document
IdsOfDoc(doc) ==
    IF /\ Truthy(doc.metadata)
       /\ "paragraph_ids" \in DOMAIN doc.metadata
       /\ doc.metadata.paragraph_ids # <<>>
    THEN NonEmpty(StripAll(SplitOn(doc.metadata.paragraph_ids, Comma)))
    ELSE <<>>

\* paragraph_ids after the loop over unique_docs
RECURSIVE CollectIds(_)
CollectIds(docs) ==
    IF docs = <<>> THEN <<>> ELSE IdsOfDoc(Head(docs)) \o CollectIds(Tail(docs))

\* list(dict.fromkeys(xs))
RECURSIVE FromKeys(_, _)
FromKeys(xs, seen) ==
    IF xs = <<>> THEN <<>>
    ELSE IF Head(xs) \in seen THEN FromKeys(Tail(xs), seen)
    ELSE <<Head(xs)>> \o FromKeys(Tail(xs), seen \cup {Head(xs)})

\* the retrieve call of run (lines 43-47)
RetrieveQuery(query) ==
    IF IsExecutiveSummaryQuery(query) THEN query \o ExecutiveSummarySuffix ELSE query

RetrieveTopK(query, top_k) ==
    IF IsExecutiveSummaryQuery(query) THEN ExecutiveSummaryTopK ELSE top_k

\* the text of a prompt (lines 92-133 and 162-174). The fixed parts of a
\* template are single tokens; the question marker, the context and the
\* query are character by character.
QuestionMarker == <<"Q", "u", "e", "s", "t", "i", "o", "n", ":">>

SectionQuestionMarker == <<"Q", "U", "E", "S", "T", "I", "O", "N", ":">>

PromptText(prompt) ==
    IF prompt.template = "section"
    THEN <<"You are a climate science expert analyzing a specific section (">>
             \o prompt.section_number
             \o <<") of an IPCC report. [...] CONTEXT FROM SECTION ">>
             \o prompt.section_number \o <<":\n">>
             \o prompt.context \o Newlines
             \o SectionQuestionMarker \o <<Space>> \o prompt.query
             \o <<"\n\nANSWER:">>
    ELSE (IF prompt.template = "executive_summary"
          THEN <<"Based on the following context from an IPCC chapter, [...] Context:\n">>
          ELSE <<"You are a climate science expert analyzing IPCC reports. [...] Context:\n">>)
             \o prompt.context \o Newlines
             \o QuestionMarker \o <<Space>> \o prompt.query
             \o <<"\n\nAnswer:">>

\* text.split(word)[-1]: what follows the last occurrence of word
AfterLast(text, word) ==
    LET at == {i \in 1..(Len(text) - Len(word) + 1) :
                  SubSeq(text, i, i + Len(word) - 1) = word}
        last == CHOOSE i \in at : \A j \in at : j <= i
    IN SubSeq(text, last + Len(word), Len(text))

MockPrefix ==
    <<"M", "o", "c", "k", " ", "a", "n", "s", "w", "e", "r", " ", "t", "o", ":", " ">>

\* mutant of FakeGenerate: the model returns the empty string
FakeGenerateNothing(text) == <<>>

\* FakeLLM.generate (fake_llm.py line 25)
FakeGenerate(text) ==
    MockPrefix \o (IF Contains(text, QuestionMarker)
                   THEN Strip(AfterLast(text, QuestionMarker))
                   ELSE text)

\* the model of a pipeline and what it does in one generate call: FakeLLM
\* returns its mock answer; TransformersModel raises (generate_fails) or
\* returns the text `generated`
GenEnv(model, generate_fails, generated) ==
    [model |-> model, generate_fails |-> generate_fails, generated |-> generated]

\* self.model.generate(prompt, temperature): the model's text for the prompt
Answer(prompt, genv) ==
    IF genv.model = "fake_llm" THEN FakeGenerate(PromptText(prompt)) ELSE genv.generated

NoRun == [called |-> FALSE]

RunIdle == run_call = NoRun

\* RAGPipeline.run(query, top_k): an exception of retrieve or of generate
\* propagates
RunResult(query, top_k, documents, genv) ==
    LET unique_docs == Dedup(documents, {})
        prompt == SelectPrompt(Context(unique_docs), query)
    IN IF genv.generate_fails
       THEN [called |-> TRUE, query |-> query, top_k |-> top_k, status |-> "raised",
             error |-> "generate", prompt |-> prompt, model |-> genv.model]
       ELSE [called |-> TRUE, query |-> query, top_k |-> top_k, status |-> "ok",
             prompt |-> prompt, model |-> genv.model,
             answer |-> Answer(prompt, genv),
             context |-> unique_docs,
             paragraph_ids |-> FromKeys(CollectIds(unique_docs), {})]

\* FakeLLM; TransformersModel raising, returning a text, and returning the
\* empty text (transformers_model.py line 191: the new tokens, stripped)
GenEnvs ==
    { GenEnv("fake_llm", FALSE, <<>>),
      GenEnv("transformers", TRUE, <<>>),
      GenEnv("transformers", FALSE, <<"o", "k">>),
      GenEnv("transformers", FALSE, <<>>) }

\* the collections a pipeline is run on: chunks with equal text and
\* different metadata, identifiers shared between chunks, identifier
\* strings with blanks and empty pieces, a text stored without metadata
RunItemPool ==
    { Item(<<"t", "1">>, ChunkMetadata(0, <<"4", ".", "1", ".", "2", ",", "5", ".", "1">>)),
      Item(<<"t", "2">>, ChunkMetadata(1, <<"5", ".", "1", ",", ",", " ", "4", ".", "1">>)),
      Item(<<"t", "1">>, ChunkMetadata(3, <<>>)),
      Item(<<"t", "3">>, NoneMetadata) }

RunCollections == SeqsUpTo(RunItemPool, MaxIndex)

\* a section query, a section query with a summary keyword, a summary
\* query, a general query
RunQueries ==
    { <<"S", "e", "c", "t", "i", "o", "n", " ", "4", ".", "1">>,
      <<"4", ".", "1", " ", "s", "u", "m", "m", "a", "r", "y">>,
      <<"O", "v", "e", "r", "v", "i", "e", "w">>,
      <<"w", "h", "y">> }

RunInit ==
    /\ collection \in RunCollections
    /\ retrieval = NoRetrieval
    /\ run_call = NoRun

\* one call of RAGPipeline.run, with its call of vector_store.retrieve
Run ==
    /\ run_call = NoRun
    /\ \E query \in RunQueries, top_k \in 1..MaxTopK, env \in Envs, genv \in GenEnvs :
           LET out == Retrieve(collection, RetrieveQuery(query),
                               RetrieveTopK(query, top_k), env)
           IN /\ retrieval' = [called |-> TRUE, query |-> RetrieveQuery(query),
                               top_k |-> RetrieveTopK(query, top_k), env |-> env,
                               out |-> out]
              /\ run_call' =
                     IF out.status = "raised"
                     THEN [called |-> TRUE, query |-> query, top_k |-> top_k,
                           status |-> "raised", error |-> "retrieve"]
                     ELSE RunResult(query, top_k, out.docs, genv)
    /\ UNCHANGED <<collection, notRunVars>>

\* the caller has taken the result (or the exception)
RunReturn ==
    /\ run_call # NoRun
    /\ run_call' = NoRun
    /\ retrieval' = NoRetrieval
    /\ UNCHANGED <<collection, notRunVars>>

RunNext == Run \/ RunReturn

----------------------------------------------------------------------------
(* The Chroma database ./chroma_db, add_documents and ingest_html_file *)

\* chunk_size of ingest_html_file when the caller gives none
DefaultChunkSize == 500

\* the database: collection name -> items <<[id, document, metadata]>>
NoCollections == <<>>

HasCollection(db, name) == name \in DOMAIN db

\* client.get_or_create_collection(name)
GetOrCreateCollection(db, name) ==
    IF HasCollection(db, name) THEN db ELSE (name :> <<>>) @@ db

IdsOf(items) == {items[i].id : i \in 1..Len(items)}

\* mutant of DocId: every document gets the same id
DocIdFixed(items, i) == 0

\* line 85: the number in the id of document i, len(collection.get()['ids']) + i
DocId(items, i) == Len(items) + i

\* add_documents(docs) from document number i on. The id of document i
\* (counted from 0) is "doc-" + (number of stored items + i).
\* env.add_failure = n: collection.add raises when n documents were handled
\* (-1: never); env.dup_raises: whether collection.add of an id that is
\* already stored raises or leaves the collection as it is (both are
\* behaviours of released chromadb versions).
RECURSIVE AddDocumentsFrom(_, _, _, _)
AddDocumentsFrom(items, docs, i, env) ==
    IF i >= Len(docs) THEN [items |-> items, raised |-> FALSE]
    ELSE IF env.add_failure = i THEN [items |-> items, raised |-> TRUE]
    ELSE LET id == DocId(items, i)
             doc == docs[i + 1]
         IN IF id \in IdsOf(items)
            THEN IF env.dup_raises
                 THEN [items |-> items, raised |-> TRUE]
                 ELSE AddDocumentsFrom(items, docs, i + 1, env)
            ELSE AddDocumentsFrom(
                     Append(items, [id |-> id, document |-> doc.page_content,
                                    metadata |-> doc.metadata]),
                     docs, i + 1, env)

\* mutant of AddDocuments: an error leaves the collection as it was
AddDocumentsAllOrNothing(items, docs, env) ==
    IF AddDocumentsFrom(items, docs, 0, env).raised
    THEN [items |-> items, raised |-> TRUE]
    ELSE AddDocumentsFrom(items, docs, 0, env)

AddDocuments(items, docs, env) == AddDocumentsFrom(items, docs, 0, env)

\* batch_size of the embedding loop
EmbedBatchSize == 50

\* the calls of embedder.embed for n chunks: range(0, n, batch_size)
EmbedBatches(n) == (n + EmbedBatchSize - 1) \div EmbedBatchSize

\* the database after the call, its return or exception, and the number of
\* calls of embedder.embed it made
IngestOutcome(db, status, embed_calls) ==
    [db |-> db, status |-> status, embed_calls |-> embed_calls]

\* mutant of IsFile: the path is not checked
IsFileUnchecked(file) == TRUE

\* line 18: os.path.isfile(file_path)
IsFile(file) == file.is_file

\* mutant of NoChunks: an empty chunk list is ingested
NoChunksAccepted(split_chunks) == FALSE

\* line 45: `if not chunks`
NoChunks(split_chunks) == split_chunks = <<>>

\* mutant of CacheHit: the collection is never looked at
CacheGateOff(db, collection_name, force_reingest) == FALSE

\* lines 21-35: the collection exists and holds data, and no
\* re-ingestion is forced
CacheHit(db, collection_name, force_reingest) ==
    /\ ~force_reingest
    /\ HasCollection(db, collection_name)
    /\ Len(db[collection_name]) > 0

\* ingest_html_file(file_path, collection_name, chunk_size, force_reingest).
\* file: the file at file_path; size: chunk_size; env.embed_fails: the
\* first call of the embedder raises.
IngestHtmlFile(db, file, collection_name, size, force_reingest, env) ==
    IF ~IsFile(file) THEN IngestOutcome(db, "FileNotFoundError", 0)
    ELSE IF CacheHit(db, collection_name, force_reingest)
    THEN IngestOutcome(db, "cache_hit", 0)
    ELSE LET split_chunks == Split(file.content, size)
    IN
    IF NoChunks(split_chunks) THEN IngestOutcome(db, "ValueError", 0)
    ELSE IF env.embed_fails THEN IngestOutcome(db, "EmbedError", 1)
    ELSE LET created == GetOrCreateCollection(db, collection_name)
             added == AddDocuments(created[collection_name], split_chunks, env)
         IN IngestOutcome([created EXCEPT ![collection_name] = added.items],
                          IF added.raised THEN "StoreError" ELSE "ingested",
                          EmbedBatches(Len(split_chunks)))

----------------------------------------------------------------------------
(* ChapterRAG.load_chapter and ChapterRAG.ask *)

Slash == "/"
Underscore == "_"

\* top_k of RAGPipeline.run when the caller gives none
DefaultTopK == 4

\* str.replace(old, new) for one-character old and new
Replace(s, old, new) == [i \in 1..Len(s) |-> IF s[i] = old THEN new ELSE s[i]]

\* f"{chapter_name}_{user_id}"
Key(chapter_name, user_id) == chapter_name \o <<Underscore>> \o user_id

\* f"ipcc_{chapter_name.replace('/', '_')}_{user_id}"
CollectionName(chapter_name, user_id) ==
    <<"i", "p", "c", "c", Underscore>> \o Replace(chapter_name, Slash, Underscore)
        \o <<Underscore>> \o user_id

\* the position of the last "/" of a path (0: none)
LastSlash(path) ==
    IF \E i \in 1..Len(path) : path[i] = Slash
    THEN CHOOSE i \in 1..Len(path) :
             path[i] = Slash /\ \A j \in (i + 1)..Len(path) : path[j] # Slash
    ELSE 0

\* Path.parent and Path.name, relative to base_path
ParentOf(path) == SubSeq(path, 1, LastSlash(path) - 1)
NameOf(path) == SubSeq(path, LastSlash(path) + 1, Len(path))

\* the file names load_chapter looks for, in this order
HtmlNames == <<"html_with_ids.html", "gatsby.html", "de_gatsby.html">>

NoFile == [found |-> FALSE]

HtmlFile(name, is_file, content) ==
    [found |-> TRUE, name |-> name, is_file |-> is_file, content |-> content]

Directory(path, files) == [path |-> path, files |-> files]

\* the directories under base_path:
\*   a/b  chapter with html_with_ids.html and gatsby.html
\*   a_b  chapter with gatsby.html
\*   a    the parent of a/b, no HTML file of its own
\*   c    html_with_ids.html is a directory; de_gatsby.html is a file
\*   e    de_gatsby.html holds no text
ChapterDirs ==
    { Directory(<<"a", Slash, "b">>,
          { HtmlFile("html_with_ids.html", TRUE,
                     <<Elem(<<"p">>, <<"a", "b">>, TRUE, <<"4", ".", "1">>)>>),
            HtmlFile("gatsby.html", TRUE,
                     <<Elem(<<"p">>, <<"g">>, FALSE, <<>>)>>) }),
      Directory(<<"a", Underscore, "b">>,
          { HtmlFile("gatsby.html", TRUE,
                     <<Elem(<<"h", "1">>, <<"x">>, FALSE, <<>>),
                       Elem(<<"p">>, <<"y">>, TRUE, <<"5">>)>>) }),
      Directory(<<"a">>, {}),
      Directory(<<"c">>,
          { HtmlFile("html_with_ids.html", FALSE, <<>>),
            HtmlFile("de_gatsby.html", TRUE,
                     <<Elem(<<"p">>, <<"c">>, TRUE, <<"4", ".", "1">>)>>) }),
      Directory(<<"e">>,
          { HtmlFile("de_gatsby.html", TRUE,
                     <<Elem(<<"p">>, <<Space>>, TRUE, <<"p">>)>>) }) }

\* the first of html_with_ids.html, gatsby.html, de_gatsby.html that exists
\* in a directory (path.exists() is true of a directory too)
FirstHtml(dir) ==
    LET present == {i \in 1..Len(HtmlNames) : \E f \in dir.files : f.name = HtmlNames[i]}
    IN IF present = {} THEN NoFile
       ELSE LET first == CHOOSE i \in present : \A j \in present : i <= j
            IN CHOOSE f \in dir.files : f.name = HtmlNames[first]

\* the values html_file can have after the search of lines 314-342: the
\* chapter directory's first HTML file; when the directory does not exist,
\* that of a sibling whose name differs in case only (iterdir() gives the
\* siblings in an order the file system chooses); NoFile when none is found
FindHtmlFiles(chapter_name) ==
    LET exact == {dir \in ChapterDirs : dir.path = chapter_name}
    IN IF exact # {} THEN {FirstHtml(dir) : dir \in exact}
       ELSE LET variants ==
                    {dir \in ChapterDirs :
                        /\ ParentOf(dir.path) = ParentOf(chapter_name)
                        /\ Lower(NameOf(dir.path)) = Lower(NameOf(chapter_name))}
                found == {FirstHtml(dir) : dir \in variants} \ {NoFile}
            IN IF found = {} THEN {NoFile} ELSE found

\* the pipeline load_chapter builds: its retriever holds the collection
\* collection_name as it was created after `epoch` deletions of that name
Pipeline(collection_name, epoch) ==
    [collection_name |-> collection_name, epoch |-> epoch]

NoPipelines == <<>>

NoDeletions == <<>>

\* how often a collection name was deleted
Deleted(epochs, name) == IF name \in DOMAIN epochs THEN epochs[name] ELSE 0

\* the registry and the database after load_chapter, its return or
\* exception, its calls of ingest_html_file and the pipelines it constructed
LoadOutcome(pipes, db, status, ingest_calls, built) ==
    [pipelines |-> pipes, db |-> db, status |-> status,
     ingest_calls |-> ingest_calls, built |-> built]

\* mutant of AlreadyLoaded: the registry is not consulted
NeverLoaded(pipes, key) == FALSE

\* line 310: `if key in self.pipelines`
AlreadyLoaded(pipes, key) == key \in DOMAIN pipes

\* mutant of Unregistered: the pipeline is registered before the exception
RegisteredAnyway(pipes, key, pipeline) == (key :> pipeline) @@ pipes

\* an exception left load_chapter before line 365: the registry is as it was
Unregistered(pipes, key, pipeline) == pipes

\* line 365: self.pipelines[key] = pipeline
Registered(pipes, key, pipeline) == (key :> pipeline) @@ pipes

\* load_chapter(chapter_name, user_id). html_file: the result of the file
\* search; env.model_fails: the construction of the model raises.
LoadChapterResult(pipes, db, epochs, chapter_name, user_id, html_file, env) ==
    LET key == Key(chapter_name, user_id)
        collection_name == CollectionName(chapter_name, user_id)
        pipeline == Pipeline(collection_name, Deleted(epochs, collection_name))
    IN
    IF AlreadyLoaded(pipes, key) THEN LoadOutcome(pipes, db, "already_loaded", 0, 0)
    ELSE IF html_file = NoFile THEN LoadOutcome(pipes, db, "FileNotFoundError", 0, 0)
    ELSE LET ingestion == IngestHtmlFile(db, html_file, collection_name,
                                         DefaultChunkSize, FALSE, env)
    IN
    IF ingestion.status \notin {"ingested", "cache_hit"}
    THEN LoadOutcome(Unregistered(pipes, key, pipeline), ingestion.db,
                     ingestion.status, 1, 0)
    ELSE IF env.model_fails
    THEN LoadOutcome(Unregistered(pipes, key, pipeline),
                     GetOrCreateCollection(ingestion.db, collection_name),
                     "ModelError", 1, 0)
    ELSE LoadOutcome(Registered(pipes, key, pipeline),
                     GetOrCreateCollection(ingestion.db, collection_name),
                     "loaded", 1, 1)

\* the <<chapter_name, user_id>> pairs of the calls: two chapters whose
\* names differ in "/" and "_" only, a second user of a chapter, a user and
\* a chapter whose names joined by "_" read like another pair's, a chapter
\* named in another case, chapters without a usable file, an unknown chapter
Requests ==
    { << <<"a", Slash, "b">>, <<"u">> >>,
      << <<"a", Underscore, "b">>, <<"u">> >>,
      << <<"a", Slash, "b">>, <<"v">> >>,
      << <<"a">>, <<"b", Underscore, "u">> >>,
      << <<"a", Slash, "B">>, <<"u">> >>,
      << <<"c">>, <<"u">> >>,
      << <<"e">>, <<"u">> >>,
      << <<"z">>, <<"u">> >> }

ChapterNames == {request[1] : request \in Requests}

UserIds == {request[2] : request \in Requests}

Questions ==
    { <<"S", "e", "c", "t", "i", "o", "n", " ", "4", ".", "1">>, <<"w", "h", "y">> }

LoadEnv(embed_fails, add_failure, dup_raises, model_fails) ==
    [embed_fails |-> embed_fails, add_failure |-> add_failure,
     dup_raises |-> dup_raises, model_fails |-> model_fails]

NoFailure == LoadEnv(FALSE, -1, FALSE, FALSE)

\* what the environment does during one ingestion and pipeline
\* construction: nothing fails, the embedder raises, the first
\* collection.add raises, the model's construction raises
LoadEnvs ==
    UNION {{ LoadEnv(FALSE, -1, dup_raises, FALSE),
             LoadEnv(TRUE, -1, dup_raises, FALSE),
             LoadEnv(FALSE, 0, dup_raises, FALSE),
             LoadEnv(FALSE, -1, dup_raises, TRUE) } : dup_raises \in BOOLEAN}

\* the environment acts only in a load that gets as far as the ingestion
LoadEnvsFor(pipes, chapter_name, user_id, html_file) ==
    IF AlreadyLoaded(pipes, Key(chapter_name, user_id)) \/ html_file = NoFile
    THEN {NoFailure}
    ELSE LoadEnvs

\* the pipelines of ChapterRAG have a TransformersModel (line 361)
RunEnv(sem_failures, generate_fails) ==
    [scan_fails |-> FALSE, sem_failures |-> sem_failures, nearest_last |-> FALSE,
     model |-> "transformers", generate_fails |-> generate_fails,
     generated |-> <<"o", "k">>]

\* what the environment does during the run of one question: nothing
\* fails, every semantic search raises, the model raises
RunEnvs == { RunEnv(0, FALSE), RunEnv(2, FALSE), RunEnv(0, TRUE) }

NoCall == [op |-> "none"]

\* who a pipeline was built for and for whom items were stored, after a load
BuiltFor(built, after, chapter_name, user_id) ==
    IF after.status = "loaded"
    THEN (Key(chapter_name, user_id) :> <<chapter_name, user_id>>) @@ built
    ELSE built

StoredFor(stored, before, after, chapter_name, user_id) ==
    LET name == CollectionName(chapter_name, user_id)
        length(db) == IF HasCollection(db, name) THEN Len(db[name]) ELSE 0
    IN IF length(after.db) > length(before)
       THEN [n \in DOMAIN stored \cup {name} |->
                IF n = name
                THEN (IF n \in DOMAIN stored THEN stored[n] ELSE {})
                         \cup {<<chapter_name, user_id>>}
                ELSE stored[n]]
       ELSE stored

\* for whom items are stored, after a collection was deleted
StoredAfterDelete(stored, name) == [n \in DOMAIN stored \ {name} |-> stored[n]]

\* the registry and the database a call found
Before == [pipelines |-> pipelines, db |-> chroma_db, deletions |-> deletions]

\* the record of a load: of load_chapter, or of ask for a key that is not
\* registered
LoadRecord(op, chapter_name, user_id, html_file, after, before) ==
    [op |-> op, chapter_name |-> chapter_name, user_id |-> user_id,
     status |-> after.status, html_file |-> html_file,
     ingest_calls |-> after.ingest_calls, built |-> after.built, before |-> before]

\* ChapterRAG.__init__: no pipeline; the database directory is new
ChapterInit ==
    /\ pipelines = NoPipelines
    /\ chroma_db = NoCollections
    /\ last_call = NoCall
    /\ built_for = <<>>
    /\ stored_for = <<>>
    /\ deletions = NoDeletions

\* one call of load_chapter, up to its return or raise
LoadChapter ==
    /\ last_call = NoCall
    /\ \E chapter_name \in ChapterNames, user_id \in UserIds :
         /\ <<chapter_name, user_id>> \in Requests
         /\ \E html_file \in FindHtmlFiles(chapter_name) :
              \E env \in LoadEnvsFor(pipelines, chapter_name, user_id, html_file) :
                LET after == LoadChapterResult(pipelines, chroma_db, deletions,
                                               chapter_name, user_id, html_file, env)
                IN /\ pipelines' = after.pipelines
                   /\ chroma_db' = after.db
                   /\ last_call' = LoadRecord("load_chapter", chapter_name, user_id,
                                              html_file, after, Before)
                   /\ built_for' = BuiltFor(built_for, after, chapter_name, user_id)
                   /\ stored_for' = StoredFor(stored_for, chroma_db, after,
                                              chapter_name, user_id)
    /\ UNCHANGED <<deletions, notChapterVars>>

\* ask(question, chapter_name, user_id) before its run of the pipeline,
\* after ingest_calls calls of ingest_html_file
AskRunning(question, chapter_name, user_id, ingest_calls, before) ==
    [op |-> "ask", chapter_name |-> chapter_name, user_id |-> user_id,
     status |-> "running", question |-> question, ingest_calls |-> ingest_calls,
     before |-> before]

\* ask for a registered key: no load (line 400)
AskRegistered ==
    /\ last_call = NoCall
    /\ \E chapter_name \in ChapterNames, user_id \in UserIds :
         /\ <<chapter_name, user_id>> \in Requests
         /\ Key(chapter_name, user_id) \in DOMAIN pipelines
         /\ \E question \in Questions :
              last_call' = AskRunning(question, chapter_name, user_id, 0, Before)
    /\ UNCHANGED <<pipelines, chroma_db, built_for, stored_for, deletions,
                   notChapterVars>>

\* ask for a key that is not registered: the automatic load (line 401),
\* whose exception propagates
AskUnregistered ==
    /\ last_call = NoCall
    /\ \E chapter_name \in ChapterNames, user_id \in UserIds :
         /\ <<chapter_name, user_id>> \in Requests
         /\ Key(chapter_name, user_id) \notin DOMAIN pipelines
         /\ \E html_file \in FindHtmlFiles(chapter_name) :
              \E env \in LoadEnvsFor(pipelines, chapter_name, user_id, html_file) :
                LET after == LoadChapterResult(pipelines, chroma_db, deletions,
                                               chapter_name, user_id, html_file, env)
                IN /\ pipelines' = after.pipelines
                   /\ chroma_db' = after.db
                   /\ built_for' = BuiltFor(built_for, after, chapter_name, user_id)
                   /\ stored_for' = StoredFor(stored_for, chroma_db, after,
                                              chapter_name, user_id)
                   /\ IF after.status # "loaded"
                      THEN last_call' = LoadRecord("ask", chapter_name, user_id,
                                                   html_file, after, Before)
                      ELSE \E question \in Questions :
                               last_call' = AskRunning(question, chapter_name, user_id,
                                                       after.ingest_calls, Before)
    /\ UNCHANGED <<deletions, notChapterVars>>

\* the retriever's collection is in the database as the pipeline got it.
\* by_name: a handle of a collection that was deleted and created again
\* under the same name reads the new collection (chromadb versions differ:
\* others raise)
HandleValid(pipeline, db, epochs, by_name) ==
    /\ HasCollection(db, pipeline.collection_name)
    /\ pipeline.epoch = Deleted(epochs, pipeline.collection_name) \/ by_name

\* lines 404-413 of ask: pipeline.run(question) on the pipeline registered
\* under the key; the result, or the exception of the run (every call on
\* the handle of a deleted collection raises)
AskRun ==
    /\ last_call # NoCall
    /\ last_call.op = "ask" /\ last_call.status = "running"
    /\ \E env \in RunEnvs, by_name \in BOOLEAN :
         LET pipeline == pipelines[Key(last_call.chapter_name, last_call.user_id)]
             question == last_call.question
             valid == HandleValid(pipeline, chroma_db, deletions, by_name)
             items == IF valid THEN chroma_db[pipeline.collection_name] ELSE <<>>
             out == Retrieve(items, RetrieveQuery(question),
                             RetrieveTopK(question, DefaultTopK), env)
             result == IF ~valid \/ out.status = "raised"
                       THEN [status |-> "raised", error |-> "retrieve"]
                       ELSE RunResult(question, DefaultTopK, out.docs, env)
         IN last_call' = [op |-> "ask", chapter_name |-> last_call.chapter_name,
                          user_id |-> last_call.user_id,
                          status |-> IF result.status = "ok" THEN "ok" ELSE "RunError",
                          question |-> question,
                          ingest_calls |-> last_call.ingest_calls,
                          before |-> last_call.before,
                          pipeline |-> pipeline,
                          items |-> items,
                          result |-> result]
    /\ UNCHANGED <<pipelines, chroma_db, built_for, stored_for, deletions,
                   notChapterVars>>

\* the names given to delete_collection: the collections of the requests
DeletableNames == {CollectionName(request[1], request[2]) : request \in Requests}

\* the sum of the deletion counts
RECURSIVE TotalDeletions(_, _)
TotalDeletions(epochs, names) ==
    IF names = {} THEN 0
    ELSE LET name == CHOOSE n \in names : TRUE
         IN epochs[name] + TotalDeletions(epochs, names \ {name})

\* VectorStoreManager.delete_collection(collection_name): True when the
\* collection was deleted, False when the client raised (no such collection)
DeleteCollection ==
    /\ last_call = NoCall
    /\ TotalDeletions(deletions, DOMAIN deletions) < MaxDeletes
    /\ \E name \in DeletableNames :
         IF HasCollection(chroma_db, name)
         THEN /\ chroma_db' = [n \in DOMAIN chroma_db \ {name} |-> chroma_db[n]]
              /\ deletions' = (name :> Deleted(deletions, name) + 1) @@ deletions
              /\ stored_for' = StoredAfterDelete(stored_for, name)
              /\ last_call' = [op |-> "delete_collection", collection_name |-> name,
                               status |-> "True", before |-> Before]
         ELSE /\ last_call' = [op |-> "delete_collection", collection_name |-> name,
                               status |-> "False", before |-> Before]
              /\ UNCHANGED <<chroma_db, deletions, stored_for>>
    /\ UNCHANGED <<pipelines, built_for, notChapterVars>>

\* the caller has taken the result (or the exception)
ChapterReturn ==
    /\ last_call # NoCall
    /\ last_call.status # "running"
    /\ last_call' = NoCall
    /\ UNCHANGED <<pipelines, chroma_db, built_for, stored_for, deletions,
                   notChapterVars>>

ChapterNext ==
    \/ LoadChapter
    \/ AskRegistered
    \/ AskUnregistered
    \/ AskRun
    \/ DeleteCollection
    \/ ChapterReturn

----------------------------------------------------------------------------
(* Direct calls of ingest_html_file *)

\* the files given to ingest_html_file: a file of three chunks at chunk
\* size 3, two chunks at chunk size 5 and one chunk at the default size, a
\* file of one chunk, a file without text, a path that is not a file
IngestFiles ==
    { HtmlFile("three.html", TRUE,
               <<Elem(<<"p">>, <<"a", "b">>, TRUE, <<"1">>),
                 Elem(<<"p">>, <<"c", "d">>, TRUE, <<"2">>),
                 Elem(<<"p">>, <<"e">>, FALSE, <<>>)>>),
      HtmlFile("one.html", TRUE, <<Elem(<<"p">>, <<"x", "y">>, TRUE, <<"9">>)>>),
      HtmlFile("blank.html", TRUE, <<Elem(<<"p">>, <<Space>>, TRUE, <<"p">>)>>),
      HtmlFile("missing.html", FALSE, <<>>) }

IngestCollections == { <<"c", "1">>, <<"c", "2">> }

IngestChunkSizes == {3, 5, DefaultChunkSize}

\* what the environment does during one ingestion: nothing fails, the
\* embedder raises, collection.add raises after some documents
IngestEnvs ==
    UNION {{LoadEnv(FALSE, -1, dup_raises, FALSE), LoadEnv(TRUE, -1, dup_raises, FALSE)}
              \cup {LoadEnv(FALSE, n, dup_raises, FALSE) : n \in 0..MaxAddFailure} :
           dup_raises \in BOOLEAN}

NoIngest == [called |-> FALSE]

IngestIdle == ingest_call = NoIngest

CountOf(db, name) == IF HasCollection(db, name) THEN Len(db[name]) ELSE 0

\* the number of items in all collections
RECURSIVE TotalCount(_, _)
TotalCount(db, names) ==
    IF names = {} THEN 0
    ELSE LET name == CHOOSE n \in names : TRUE
         IN Len(db[name]) + TotalCount(db, names \ {name})

\* one call of ingest_html_file, up to its return or raise (the program
\* is single-threaded: no call starts while one is outstanding)
Ingest ==
    /\ ingest_call = NoIngest
    /\ \E file \in IngestFiles, collection_name \in IngestCollections,
          size \in IngestChunkSizes, force_reingest \in BOOLEAN, env \in IngestEnvs :
         LET after == IngestHtmlFile(chroma_db, file, collection_name, size,
                                     force_reingest, env)
         IN /\ TotalCount(after.db, DOMAIN after.db) <= MaxStored
            /\ chroma_db' = after.db
            /\ ingest_call' = [called |-> TRUE, file |-> file,
                               collection_name |-> collection_name,
                               chunk_size |-> size,
                               force_reingest |-> force_reingest,
                               env |-> env,
                               status |-> after.status,
                               embed_calls |-> after.embed_calls,
                               before |-> chroma_db]
    /\ UNCHANGED notIngestVars

\* the caller has taken the return or the exception
IngestReturn ==
    /\ ingest_call # NoIngest
    /\ ingest_call' = NoIngest
    /\ UNCHANGED <<chroma_db, notIngestVars>>

IngestNext == Ingest \/ IngestReturn

----------------------------------------------------------------------------
(* ChapterManager.load_chapter and ChapterManager.query_chapter *)

\* user_id=None
NoUser == <<>>

\* lines 66-68: f"ipcc_{chapter_path.replace('/', '_')}", and "_" + user_id
\* when a user_id is given
ManagerCollectionName(chapter_path, user_id) ==
    <<"i", "p", "c", "c", Underscore>> \o Replace(chapter_path, Slash, Underscore)
        \o (IF user_id # NoUser THEN <<Underscore>> \o user_id ELSE <<>>)

\* the chapter paths of the calls: a chapter with two HTML files, a chapter
\* whose file holds no text, a directory without HTML file, an unknown path
ManagerPaths == { <<"a", Slash, "b">>, <<"e">>, <<"a">>, <<"z">> }

ManagerUsers == { NoUser, <<"u">>, <<"v">> }

\* the values html_files[0] can have (lines 55-63; glob gives the files in
\* an order the file system chooses): NoFile when the path does not exist
\* or holds no *.html entry
GlobFirst(chapter_path) ==
    LET found == UNION {dir.files : dir \in {d \in ChapterDirs : d.path = chapter_path}}
    IN IF found = {} THEN {NoFile} ELSE found

\* lines 93-98 (loaded_at is the modification time of html_file)
Metadata(html_file, collection_name, user_id) ==
    [html_file |-> html_file.name, collection_name |-> collection_name,
     user_id |-> user_id]

ManagerOutcome(loaded, metadata, db, status) ==
    [loaded_chapters |-> loaded, chapter_metadata |-> metadata, db |-> db,
     status |-> status]

\* lines 90 and 127-130: the key of self.loaded_chapters and of
\* self.chapter_metadata for a call with chapter_path and user_id
LoadedUnder(chapter_path, user_id) == chapter_path

\* load_chapter(chapter_path, user_id): every call ingests (a cache hit
\* when the collection holds items) and builds a pipeline
ManagerLoadResult(loaded, metadata, db, chapter_path, user_id, html_file, env) ==
    LET collection_name == ManagerCollectionName(chapter_path, user_id)
        key == LoadedUnder(chapter_path, user_id)
    IN
    IF html_file = NoFile THEN ManagerOutcome(loaded, metadata, db, "FileNotFoundError")
    ELSE LET ingestion == IngestHtmlFile(db, html_file, collection_name,
                                         DefaultChunkSize, FALSE, env)
    IN
    IF ingestion.status \notin {"ingested", "cache_hit"}
    THEN ManagerOutcome(loaded, metadata, ingestion.db, ingestion.status)
    ELSE IF env.model_fails
    THEN ManagerOutcome(loaded, metadata, ingestion.db, "ModelError")
    ELSE ManagerOutcome(
             (key :> Pipeline(collection_name, 0)) @@ loaded,
             (key :> Metadata(html_file, collection_name, user_id)) @@ metadata,
             GetOrCreateCollection(ingestion.db, collection_name),
             "loaded")

\* the environment acts only in a load that gets as far as the ingestion
ManagerEnvsFor(html_file) == IF html_file = NoFile THEN {NoFailure} ELSE LoadEnvs

\* what the environment does during the run of one query: nothing fails,
\* every semantic search raises (FakeLLM.generate does not raise)
ManagerRunEnvs ==
    { [scan_fails |-> FALSE, sem_failures |-> sem_failures, nearest_last |-> FALSE,
       model |-> "fake_llm", generate_fails |-> FALSE, generated |-> <<>>]
      : sem_failures \in {0, 2} }

NoManagerCall == [op |-> "none"]

ManagerIdle ==
    /\ loaded_chapters = <<>>
    /\ chapter_metadata = <<>>
    /\ manager_call = NoManagerCall

\* ChapterManager.__init__
ManagerInit ==
    /\ loaded_chapters = <<>>
    /\ chapter_metadata = <<>>
    /\ manager_call = NoManagerCall

\* one call of load_chapter, up to its return or raise
ManagerLoadChapter ==
    /\ manager_call = NoManagerCall
    /\ \E chapter_path \in ManagerPaths, user_id \in ManagerUsers :
         \E html_file \in GlobFirst(chapter_path) :
           \E env \in ManagerEnvsFor(html_file) :
             LET after == ManagerLoadResult(loaded_chapters, chapter_metadata, chroma_db,
                                            chapter_path, user_id, html_file, env)
             IN /\ loaded_chapters' = after.loaded_chapters
                /\ chapter_metadata' = after.chapter_metadata
                /\ chroma_db' = after.db
                /\ manager_call' = [op |-> "load_chapter", chapter_path |-> chapter_path,
                                    user_id |-> user_id, status |-> after.status]
    /\ UNCHANGED notManagerVars

\* query_chapter(chapter_path, query, user_id) before its run of the pipeline
QueryRunning(chapter_path, query, user_id, loaded_now) ==
    [op |-> "query_chapter", chapter_path |-> chapter_path, user_id |-> user_id,
     status |-> "running", query |-> query, loaded_now |-> loaded_now]

\* query_chapter for a chapter path that is in self.loaded_chapters: no load
\* (line 127)
QueryLoaded ==
    /\ manager_call = NoManagerCall
    /\ \E chapter_path \in ManagerPaths, user_id \in ManagerUsers :
         /\ LoadedUnder(chapter_path, user_id) \in DOMAIN loaded_chapters
         /\ \E query \in Questions :
              manager_call' = QueryRunning(chapter_path, query, user_id, FALSE)
    /\ UNCHANGED <<loaded_chapters, chapter_metadata, chroma_db, notManagerVars>>

\* query_chapter for a chapter path that is not in self.loaded_chapters: the
\* load of line 128, whose exception propagates
QueryUnloaded ==
    /\ manager_call = NoManagerCall
    /\ \E chapter_path \in ManagerPaths, user_id \in ManagerUsers :
         /\ LoadedUnder(chapter_path, user_id) \notin DOMAIN loaded_chapters
         /\ \E html_file \in GlobFirst(chapter_path) :
              \E env \in ManagerEnvsFor(html_file) :
                LET after == ManagerLoadResult(loaded_chapters, chapter_metadata,
                                               chroma_db, chapter_path, user_id,
                                               html_file, env)
                IN /\ loaded_chapters' = after.loaded_chapters
                   /\ chapter_metadata' = after.chapter_metadata
                   /\ chroma_db' = after.db
                   /\ IF after.status # "loaded"
                      THEN manager_call' = [op |-> "query_chapter",
                                            chapter_path |-> chapter_path,
                                            user_id |-> user_id,
                                            status |-> after.status]
                      ELSE \E query \in Questions :
                               manager_call' = QueryRunning(chapter_path, query,
                                                            user_id, TRUE)
    /\ UNCHANGED notManagerVars

\* lines 130-137 of query_chapter: pipeline.run(query) on the pipeline stored
\* for the chapter path, or the exception of the run; the dictionary
\* returned is `result` with the chapter_path and the user_id of the call
QueryRun ==
    /\ manager_call # NoManagerCall
    /\ manager_call.op = "query_chapter" /\ manager_call.status = "running"
    /\ \E env \in ManagerRunEnvs :
         LET pipeline == loaded_chapters[LoadedUnder(manager_call.chapter_path,
                                                    manager_call.user_id)]
             query == manager_call.query
             items == chroma_db[pipeline.collection_name]
             out == Retrieve(items, RetrieveQuery(query),
                             RetrieveTopK(query, DefaultTopK), env)
             result == IF out.status = "raised"
                       THEN [status |-> "raised", error |-> "retrieve"]
                       ELSE RunResult(query, DefaultTopK, out.docs, env)
         IN manager_call' = [op |-> "query_chapter",
                             chapter_path |-> manager_call.chapter_path,
                             user_id |-> manager_call.user_id,
                             status |-> IF result.status = "ok" THEN "ok" ELSE "RunError",
                             query |-> query,
                             loaded_now |-> manager_call.loaded_now,
                             pipeline |-> pipeline,
                             result |-> result]
    /\ UNCHANGED <<loaded_chapters, chapter_metadata, chroma_db, notManagerVars>>

\* the caller has taken the result (or the exception)
ManagerReturn ==
    /\ manager_call # NoManagerCall
    /\ manager_call.status # "running"
    /\ manager_call' = NoManagerCall
    /\ UNCHANGED <<loaded_chapters, chapter_metadata, chroma_db, notManagerVars>>

ManagerNext ==
    \/ ManagerLoadChapter
    \/ QueryLoaded
    \/ QueryUnloaded
    \/ QueryRun
    \/ ManagerReturn

----------------------------------------------------------------------------
(* TransformersModel.generate *)

\* temperatures in tenths: the cap min(temperature, 0.8) of the first
\* attempt and temperature=0.5 of the retry on the pipeline path
TemperatureCap == 8
RetryTemperature == 5
\* a retry on the direct path passes no temperature
NoTemperature == -1

\* max_new_tokens of the first attempt and of the retry
MaxNewTokens == 150
RetryMaxNewTokens == 50

\* what one call of the generator (pipeline path) or of model.generate
\* (direct path) does: it returns, it raises the RuntimeError of sampling
\* ("probability tensor contains either inf, nan or element < 0"), it
\* raises another RuntimeError, it raises another exception
ProbabilityTensor == "RuntimeError: probability tensor"
AttemptOutcomes == {"ok", ProbabilityTensor, "RuntimeError: other", "ValueError"}

Attempt(do_sample, temperature, max_new_tokens, outcome) ==
    [do_sample |-> do_sample, temperature |-> temperature,
     max_new_tokens |-> max_new_tokens, outcome |-> outcome]

\* mutant of Retryable: every exception of the first attempt is retried
RetryAlways(outcome) == outcome # "ok"

\* `except RuntimeError as e: if "probability tensor" in str(e)`
Retryable(outcome) == outcome = ProbabilityTensor

\* the attempts of one generate call and how it ends. first, retry: what
\* the first and the second attempt do
GenerateAttempts(use_pipeline, temperature, first, retry) ==
    LET first_attempt == Attempt(TRUE, Min(temperature, TemperatureCap),
                                 MaxNewTokens, first)
        second_attempt == Attempt(FALSE,
                                  IF use_pipeline THEN RetryTemperature
                                  ELSE NoTemperature,
                                  RetryMaxNewTokens, retry)
    IN IF first = "ok"
       THEN [status |-> "ok", attempts |-> <<first_attempt>>]
       ELSE IF Retryable(first)
       THEN IF retry = "ok"
            THEN [status |-> "ok", attempts |-> <<first_attempt, second_attempt>>]
            ELSE [status |-> "raised", error |-> retry,
                  attempts |-> <<first_attempt, second_attempt>>]
       ELSE [status |-> "raised", error |-> first, attempts |-> <<first_attempt>>]

\* the text generate returns for `continuation`, the new tokens of the
\* model: the pipeline's generated_text (prompt and continuation), or the
\* continuation alone, stripped (line 191)
GeneratedText(use_pipeline, prompt, continuation) ==
    IF use_pipeline THEN prompt \o continuation ELSE Strip(continuation)

GeneratePrompts == { <<"w", "h", "y">>, <<"4", ".", "1">> }
GenerateTemperatures == {3, 7, 10}
Continuations == { <<>>, <<Space, "o", "k", Space>> }

NoGenerate == [called |-> FALSE]

ModelIdle == generate_call = NoGenerate

\* one call of generate(prompt, temperature), up to its return or raise
Generate ==
    /\ generate_call = NoGenerate
    /\ \E use_pipeline \in BOOLEAN, prompt \in GeneratePrompts,
          temperature \in GenerateTemperatures, first \in AttemptOutcomes,
          retry \in AttemptOutcomes, continuation \in Continuations :
         LET out == GenerateAttempts(use_pipeline, temperature, first, retry)
         IN generate_call' =
                [called |-> TRUE, use_pipeline |-> use_pipeline, prompt |-> prompt,
                 temperature |-> temperature, first |-> first, retry |-> retry,
                 out |-> out,
                 text |-> IF out.status = "ok"
                          THEN GeneratedText(use_pipeline, prompt, continuation)
                          ELSE <<>>]
    /\ UNCHANGED notModelVars

\* the caller has taken the text (or the exception)
GenerateReturn ==
    /\ generate_call # NoGenerate
    /\ generate_call' = NoGenerate
    /\ UNCHANGED notModelVars

GenerateNext == Generate \/ GenerateReturn

----------------------------------------------------------------------------
(* The command line: llmrag load-chapter *)

NoCommand == [called |-> FALSE]

CliIdle == cli_call = NoCommand

\* load_chapter_command(chapter, user_id, base_path, model_name, device,
\* force): a new ChapterRAG, which has no pipeline, and its
\* load_chapter(chapter, user_id); the parameter force is not read
LoadChapterCommandResult(db, chapter, user_id, force, html_file, env) ==
    LoadChapterResult(NoPipelines, db, NoDeletions, chapter, user_id, html_file, env)

\* lines 241-243: an exception of the load is printed and the process
\* exits with code 1
ExitCode(status) == IF status = "loaded" THEN 0 ELSE 1

\* one run of `llmrag load-chapter <chapter> --user-id <user_id> [--force]`,
\* a process of its own, up to its exit; the database directory outlives it
LoadChapterCommand ==
    /\ cli_call = NoCommand
    /\ \E request \in Requests, force \in BOOLEAN :
         \E html_file \in FindHtmlFiles(request[1]) :
           \E env \in LoadEnvsFor(NoPipelines, request[1], request[2], html_file) :
             LET after == LoadChapterCommandResult(chroma_db, request[1], request[2],
                                                   force, html_file, env)
             IN /\ chroma_db' = after.db
                /\ cli_call' = [called |-> TRUE, chapter |-> request[1],
                                user_id |-> request[2], force |-> force,
                                html_file |-> html_file, env |-> env,
                                status |-> after.status,
                                exit_code |-> ExitCode(after.status),
                                before |-> chroma_db]
    /\ UNCHANGED notCliVars

\* the process has exited
CommandExit ==
    /\ cli_call # NoCommand
    /\ cli_call' = NoCommand
    /\ UNCHANGED <<chroma_db, notCliVars>>

CliNext == LoadChapterCommand \/ CommandExit

----------------------------------------------------------------------------
(* IPCCPipeline._process_source *)

\* the six stages of the configuration, in the order of _process_source,
\* and the quality checks, which have no enabled flag
StageNames == <<"download", "clean", "structure", "chunk", "dictionary", "encyclopedia">>
QualityChecks == "quality_checks"
Steps == StageNames \o <<QualityChecks>>

NoName == "none"

\* the local variable a step passes to its component (download passes
\* source['url'])
Reads(step) ==
    CASE step = "download" -> NoName
      [] step = "clean" -> "html_content"
      [] step = "structure" -> "cleaned_content"
      [] step = "chunk" -> "structured_content"
      [] step = "dictionary" -> "structured_content"
      [] step = "encyclopedia" -> "dictionary"
      [] step = QualityChecks -> "structured_content"

\* the local variable a step assigns
Binds(step) ==
    CASE step = "download" -> "html_content"
      [] step = "clean" -> "cleaned_content"
      [] step = "structure" -> "structured_content"
      [] step = "chunk" -> "chunks"
      [] step = "dictionary" -> "dictionary"
      [] step = "encyclopedia" -> "encyclopedia"
      [] step = QualityChecks -> "quality_report"

\* the file a step writes
Writes(step) ==
    CASE step = "download" -> "raw.html"
      [] step = "clean" -> "cleaned.html"
      [] step = "structure" -> "structured.html"
      [] step = "chunk" -> "chunks.json"
      [] step = "dictionary" -> "dictionary.json"
      [] step = "encyclopedia" -> "encyclopedia.json"
      [] step = QualityChecks -> "quality_report.json"

\* `if self.pipeline_config['stages'][...]['enabled']`; the quality checks
\* (line 151) are under no condition
Enabled(enabled, step) == step = QualityChecks \/ enabled[step]

\* the frame of _process_source: the local variables that are bound, the
\* components that ran, the files that were written
Frame(bound, ran, written, status) ==
    [bound |-> bound, ran |-> ran, written |-> written, status |-> status]

RECURSIVE ProcessFrom(_, _, _, _)
\* _process_source from step i on. enabled: the flags of the
\* configuration; fails: the step whose component raises (NoName: none).
\* Reading a local variable that no earlier step has bound raises
\* UnboundLocalError.
ProcessFrom(i, enabled, fails, frame) ==
    IF i > Len(Steps) THEN [frame EXCEPT !.status = "completed"]
    ELSE LET step == Steps[i]
         IN IF ~Enabled(enabled, step)
            THEN ProcessFrom(i + 1, enabled, fails, frame)
            ELSE IF Reads(step) # NoName /\ Reads(step) \notin frame.bound
            THEN [frame EXCEPT !.status = "UnboundLocalError", !.at = step]
            ELSE IF fails = step
            THEN [frame EXCEPT !.status = "StageError", !.at = step]
            ELSE ProcessFrom(i + 1, enabled, fails,
                             [frame EXCEPT !.bound = @ \cup {Binds(step)},
                                           !.ran = Append(@, step),
                                           !.written = @ \cup {Writes(step)}])

ProcessSourceResult(enabled, fails) ==
    ProcessFrom(1, enabled, fails,
                [bound |-> {}, ran |-> <<>>, written |-> {}, status |-> "running",
                 at |-> NoName])

StageSet == {StageNames[i] : i \in 1..Len(StageNames)}

NoProcess == [called |-> FALSE]

StageIdle == process_call = NoProcess

\* one call of _process_source(source), up to its return or raise
ProcessSource ==
    /\ process_call = NoProcess
    /\ \E enabled \in [StageSet -> BOOLEAN],
          fails \in {Steps[i] : i \in 1..Len(Steps)} \cup {NoName} :
         process_call' = [called |-> TRUE, enabled |-> enabled, fails |-> fails,
                          out |-> ProcessSourceResult(enabled, fails)]
    /\ UNCHANGED notStageVars

ProcessReturn ==
    /\ process_call # NoProcess
    /\ process_call' = NoProcess
    /\ UNCHANGED notStageVars

StagesNext == ProcessSource \/ ProcessReturn

----------------------------------------------------------------------------
(* FAISSVectorStore *)

\* __init__: self.index = None, self.documents = []
NoIndex == [built |-> FALSE, vectors |-> <<>>]
NoSearch == [called |-> FALSE]

FaissInit ==
    /\ faiss_index = NoIndex
    /\ faiss_documents = <<>>
    /\ search_call = NoSearch

\* embeddings of one dimension, and document texts
FaissPoints == {0, 2, 3}
FaissTexts == {"a", "b"}

\* the label and the distance faiss reports for a neighbour it does not
\* have (the distance is the largest float32)
MissingLabel == -1
MissingDistance == 1000

\* IndexFlatL2: the squared Euclidean distance
L2(a, b) == (a - b) * (a - b)

\* the orders in which the index can rank its vectors for a query: by
\* distance, vectors at the same distance in either order
RankedOrders(vectors, query) ==
    {order \in Permutations(1..Len(vectors)) :
        \A i, j \in 1..Len(vectors) :
            i < j => L2(vectors[order[i]], query) <= L2(vectors[order[j]], query)}

\* self.index.search(query, top_k): top_k labels (positions from 0) and
\* distances, the missing ones filled with -1
IndexSearch(vectors, query, top_k, order) ==
    [i \in 1..top_k |->
        IF i <= Len(vectors)
        THEN [idx |-> order[i] - 1, dist |-> L2(vectors[order[i]], query)]
        ELSE [idx |-> MissingLabel, dist |-> MissingDistance]]

\* self.documents[idx] of Python: a negative idx counts from the end
\* (0: IndexError)
PyPosition(xs, idx) ==
    IF idx >= 0 THEN (IF idx < Len(xs) THEN idx + 1 ELSE 0)
    ELSE (IF -idx <= Len(xs) THEN Len(xs) + idx + 1 ELSE 0)

\* line 24: `if idx < len(self.documents)`
InDocuments(idx, docs) == idx < Len(docs)

RECURSIVE SearchLoop(_, _, _, _)
\* lines 23-25 from the i-th neighbour on; an entry of results is the pair
\* (document, distance), kept with the label it was read under
SearchLoop(i, found, docs, results) ==
    IF i > Len(found) THEN [status |-> "ok", results |-> results]
    ELSE IF ~InDocuments(found[i].idx, docs)
    THEN SearchLoop(i + 1, found, docs, results)
    ELSE IF PyPosition(docs, found[i].idx) = 0
    THEN [status |-> "IndexError", results |-> <<>>]
    ELSE SearchLoop(i + 1, found, docs,
                    Append(results,
                           [document |-> docs[PyPosition(docs, found[i].idx)],
                            distance |-> found[i].dist, idx |-> found[i].idx]))

\* search(query_embedding, top_k)
SearchResult(index, docs, query, top_k, order) ==
    IF ~index.built THEN [status |-> "AttributeError", results |-> <<>>]
    ELSE SearchLoop(1, IndexSearch(index.vectors, query, top_k, order), docs, <<>>)

\* add_documents(documents, embeddings): IndexError of embeddings[0] on an
\* empty list, before anything is changed
FaissAddDocuments ==
    /\ search_call = NoSearch
    /\ \E docs \in SeqsUpTo(FaissTexts, 2), embeddings \in SeqsUpTo(FaissPoints, 2) :
         /\ Len(faiss_documents) + Len(docs) <= MaxVectors
         /\ Len(faiss_index.vectors) + Len(embeddings) <= MaxVectors
         /\ IF embeddings = <<>>
            THEN UNCHANGED <<faiss_index, faiss_documents>>
            ELSE /\ faiss_index' = [built |-> TRUE,
                                    vectors |-> faiss_index.vectors \o embeddings]
                 /\ faiss_documents' = faiss_documents \o docs
    /\ UNCHANGED <<search_call, notFaissVars>>

\* one call of search, up to its return or raise
FaissSearch ==
    /\ search_call = NoSearch
    /\ \E query \in FaissPoints, top_k \in 1..MaxTopK :
         \E order \in RankedOrders(faiss_index.vectors, query) :
           LET out == SearchResult(faiss_index, faiss_documents, query, top_k, order)
           IN search_call' = [called |-> TRUE, query |-> query, top_k |-> top_k,
                              status |-> out.status, results |-> out.results]
    /\ UNCHANGED <<faiss_index, faiss_documents, notFaissVars>>

SearchReturn ==
    /\ search_call # NoSearch
    /\ search_call' = NoSearch
    /\ UNCHANGED <<faiss_index, faiss_documents, notFaissVars>>

FaissNext == FaissAddDocuments \/ FaissSearch \/ SearchReturn

----------------------------------------------------------------------------
(* Specifications: one per component, the other components idle *)

InitSplit == FaissInit /\ StageIdle /\ CliIdle /\ ModelIdle /\ ManagerIdle /\ SplitInit /\ StoreIdle /\ RunIdle /\ ChapterInit /\ IngestIdle

SpecSplit == InitSplit /\ [][SplitNext]_vars

InitRetrieve == FaissInit /\ StageIdle /\ CliIdle /\ ModelIdle /\ ManagerIdle /\ RetrieveInit /\ SplitIdle /\ RunIdle /\ ChapterInit /\ IngestIdle

SpecRetrieve == InitRetrieve /\ [][RetrieveNext]_vars

InitRun == FaissInit /\ StageIdle /\ CliIdle /\ ModelIdle /\ ManagerIdle /\ RunInit /\ SplitIdle /\ ChapterInit /\ IngestIdle

SpecRun == InitRun /\ [][RunNext]_vars

InitChapterRAG == FaissInit /\ StageIdle /\ CliIdle /\ ModelIdle /\ ManagerIdle /\ ChapterInit /\ SplitIdle /\ StoreIdle /\ RunIdle /\ IngestIdle

SpecChapterRAG == InitChapterRAG /\ [][ChapterNext]_vars

\* a new database directory and no call of ingest_html_file yet
InitIngest == FaissInit /\ StageIdle /\ CliIdle /\ ModelIdle /\ ManagerIdle /\ ChapterInit /\ IngestIdle /\ SplitIdle /\ StoreIdle /\ RunIdle

SpecIngest == InitIngest /\ [][IngestNext]_vars

\* a new ChapterManager on a new database directory
InitChapterManager ==
    FaissInit /\ StageIdle /\ CliIdle /\ ModelIdle /\ ManagerInit /\ ChapterInit /\ IngestIdle /\ SplitIdle /\ StoreIdle /\ RunIdle

SpecChapterManager == InitChapterManager /\ [][ManagerNext]_vars

\* a TransformersModel that was constructed, on either path
InitGenerate ==
    /\ FaissInit /\ StageIdle /\ CliIdle /\ ModelIdle /\ ManagerIdle /\ ChapterInit /\ IngestIdle /\ SplitIdle
    /\ StoreIdle /\ RunIdle

SpecGenerate == InitGenerate /\ [][GenerateNext]_vars

\* the command line on a new database directory
InitCli ==
    /\ FaissInit /\ StageIdle /\ CliIdle /\ ModelIdle /\ ManagerIdle /\ ChapterInit /\ IngestIdle /\ SplitIdle
    /\ StoreIdle /\ RunIdle

SpecCli == InitCli /\ [][CliNext]_vars

\* an IPCCPipeline that was constructed
InitStages ==
    /\ FaissInit /\ StageIdle /\ CliIdle /\ ModelIdle /\ ManagerIdle /\ ChapterInit
    /\ IngestIdle /\ SplitIdle /\ StoreIdle /\ RunIdle

SpecStages == InitStages /\ [][StagesNext]_vars

\* a FAISSVectorStore that was constructed
InitFaiss ==
    /\ FaissInit /\ StageIdle /\ CliIdle /\ ModelIdle /\ ManagerIdle /\ ChapterInit
    /\ IngestIdle /\ SplitIdle /\ StoreIdle /\ RunIdle

SpecFaiss == InitFaiss /\ [][FaissNext]_vars

----------------------------------------------------------------------------
(* Properties of HtmlTextSplitter.split *)

\* the positions of the elements whose text went into chunk number k
OwnedBy(k) == {i \in 1..Len(owner) : owner[i] = k}

RECURSIVE OwnedFrom(_, _)
OwnedFrom(k, i) ==
    IF i > Len(owner) THEN <<>>
    ELSE (IF owner[i] = k THEN <<elements[i]>> ELSE <<>>) \o OwnedFrom(k, i + 1)

\* the elements whose text went into chunk number k, in document order
Owned(k) == OwnedFrom(k, 1)

RECURSIVE Texts(_)
Texts(es) == IF es = <<>> THEN <<>> ELSE <<ElemText(Head(es))>> \o Texts(Tail(es))

RECURSIVE DeclaredIds(_)
DeclaredIds(es) ==
    IF es = <<>> THEN <<>>
    ELSE (IF DeclaresId(Head(es)) THEN <<Head(es).id>> ELSE <<>>) \o DeclaredIds(Tail(es))

RECURSIVE PageContents(_)
PageContents(cs) ==
    IF cs = <<>> THEN <<>> ELSE <<Head(cs).page_content>> \o PageContents(Tail(cs))

SplitDone == split_pc = "done"

\* the chunks of a finished split are those of Split, the same loop written
\* as a function of the element list
SplitIsTheLoop == SplitDone => chunks = Split(elements, chunk_size)

\* C2: every chunk's text length is at most the chunk-size budget, except a
\* chunk made of exactly one source element whose own text is longer than
\* the budget.
C2_ChunkSizeBound ==
    \A k \in 1..Len(chunks) :
        \/ Len(chunks[k].page_content) <= chunk_size
        \/ /\ Cardinality(OwnedBy(k)) = 1
           /\ \A i \in OwnedBy(k) : Len(ElemText(elements[i])) > chunk_size

\* a finished split with an over-long single-element chunk next to a chunk
\* that packs two elements within the budget
C2_Witness ==
    /\ SplitDone
    /\ \E k \in 1..Len(chunks) : Len(chunks[k].page_content) > chunk_size
    /\ \E k \in 1..Len(chunks) :
           Cardinality(OwnedBy(k)) >= 2 /\ Len(chunks[k].page_content) = chunk_size

\* C3: when split returns, every text-bearing element lies in exactly one
\* chunk (the chunk text is the space-join of its elements' texts), and the
\* paragraph_ids metadata of each chunk is the comma-join of exactly the
\* identifiers declared by the elements whose text that chunk contains, in
\* order: a declared identifier is recorded in the chunk holding its text
\* and nowhere else, and an element without identifier adds text only.
C3_IdentifierPropagation ==
    SplitDone =>
        /\ \A i \in 1..Len(elements) :
               (ElemText(elements[i]) # <<>>) <=> (owner[i] \in 1..Len(chunks))
        /\ \A k \in 1..Len(chunks) :
               /\ chunks[k].page_content = Join(Texts(Owned(k)), <<Space>>)
               /\ chunks[k].metadata.paragraph_ids = Join(DeclaredIds(Owned(k)), <<Comma>>)

\* a finished split of two chunks: one holds an element with an identifier
\* and one without, the other chunk holds an element with another identifier
C3_Witness ==
    /\ SplitDone
    /\ Len(chunks) = 2
    /\ \E i, j \in OwnedBy(1) : DeclaresId(elements[i]) /\ ~elements[j].has_id
    /\ \E i \in OwnedBy(2) : DeclaresId(elements[i])
    /\ chunks[1].metadata.paragraph_ids # chunks[2].metadata.paragraph_ids

\* C4: when split returns, the chunk texts joined in output order with the
\* separator reproduce the stripped texts of the non-empty elements joined
\* in document order (compared after strip(), the whitespace normalisation),
\* and the chunk indices count the chunks in output order.
C4_OrderPreservation ==
    SplitDone =>
        /\ Strip(Join(PageContents(chunks), <<Space>>))
               = Join(NonEmpty(Texts(elements)), <<Space>>)
        /\ \A k \in 1..Len(chunks) : chunks[k].metadata.chunk_index = k - 1

\* a finished split of at least two chunks whose last chunk is the trailing
\* buffer, of a document that also had an element without text
C4_Witness ==
    /\ SplitDone
    /\ Len(chunks) >= 2
    /\ current_chunk # <<>>
    /\ chunks[Len(chunks)].page_content = current_chunk
    /\ \E i \in 1..Len(elements) : owner[i] = 0

IsScenario == elements = ScenarioDocument /\ chunk_size = ScenarioChunkSize

\* C5 as stated: the scenario document with chunk size 100 yields two
\* chunks, "Intro Large language models generate text." with identifier p1
\* and "Uses Used in chatbots." with identifier p2.
C5_AsStated ==
    (SplitDone /\ IsScenario) =>
        /\ Len(chunks) = 2
        /\ chunks[1].page_content = <<"I", "n", "t", "r", "o", " ", "L", "a", "r", "g", "e",
                 " ", "l", "a", "n", "g", "u", "a", "g", "e", " ", "m",
                 "o", "d", "e", "l", "s", " ", "g", "e", "n", "e", "r",
                 "a", "t", "e", " ", "t", "e", "x", "t", ".">>
        /\ chunks[1].metadata.paragraph_ids = <<"p", "1">>
        /\ chunks[2].page_content = <<"U", "s", "e", "s", " ", "U", "s", "e", "d", " ", "i",
                 "n", " ", "c", "h", "a", "t", "b", "o", "t", "s", ".">>
        /\ chunks[2].metadata.paragraph_ids = <<"p", "2">>

\* C5 amended: the scenario document with chunk size 100 yields one chunk,
\* "Intro Large language models generate text. Uses Used in chatbots."
\* (65 characters), with identifiers p1 and p2 (stored as "p1,p2").
C5_ScenarioOneChunk ==
    (SplitDone /\ IsScenario) =>
        /\ Len(chunks) = 1
        /\ chunks[1].page_content = <<"I", "n", "t", "r", "o", " ", "L", "a", "r", "g", "e",
                 " ", "l", "a", "n", "g", "u", "a", "g", "e", " ", "m",
                 "o", "d", "e", "l", "s", " ", "g", "e", "n", "e", "r",
                 "a", "t", "e", " ", "t", "e", "x", "t", ".", " ", "U",
                 "s", "e", "s", " ", "U", "s", "e", "d", " ", "i", "n",
                 " ", "c", "h", "a", "t", "b", "o", "t", "s", ".">>
        /\ chunks[1].metadata.paragraph_ids = <<"p", "1", ",", "p", "2">>
        /\ chunks[1].metadata.element_types = <<"h", "1", ",", "p", ",", "h", "2", ",", "p">>
        /\ chunks[1].metadata.chunk_index = 0

C5_Witness == SplitDone /\ IsScenario /\ Len(chunks) >= 1

----------------------------------------------------------------------------
(* Properties of ChromaVectorStore.retrieve *)

\* the identifiers a stored chunk carries: the pieces of its comma-joined
\* paragraph_ids, trimmed
IdentifiersOf(md) ==
    IF Truthy(md) /\ "paragraph_ids" \in DOMAIN md /\ md.paragraph_ids # <<>>
    THEN LET pieces == SplitOn(md.paragraph_ids, Comma)
         IN {Strip(pieces[i]) : i \in 1..Len(pieces)}
    ELSE {}

HasIdentifierOf(md, section) == \E id \in IdentifiersOf(md) : StartsWith(id, section)

\* positions of the items of the collection with an identifier of the section
SectionPositions(section) ==
    {i \in 1..Len(collection) : HasIdentifierOf(collection[i].metadata, section)}

\* docs are items of the collection at increasing positions taken from P
InIndexOrder(docs, P) ==
    \E f \in [1..Len(docs) -> 1..Len(collection)] :
        /\ \A j \in 1..Len(docs) :
               /\ f[j] \in P
               /\ docs[j] = Doc(collection[f[j]].document, collection[f[j]].metadata)
        /\ \A j \in 1..(Len(docs) - 1) : f[j] < f[j + 1]

\* a retrieve call was made with a query that has a section token, on a
\* collection holding a chunk with an identifier beginning with it
SectionCallWithMatch ==
    /\ retrieval.called
    /\ ExtractSectionQuery(retrieval.query) # <<>>
    /\ SectionPositions(ExtractSectionQuery(retrieval.query)) # {}

SectionExact ==
    LET section == ExtractSectionQuery(retrieval.query)
        out == retrieval.out
    IN /\ out.status = "ok"
       /\ out.sem_calls = <<>>
       /\ Len(out.docs) = Min(retrieval.top_k, Cardinality(SectionPositions(section)))
       /\ InIndexOrder(out.docs, SectionPositions(section))

SectionCallFallingBack ==
    /\ retrieval.called
    /\ ExtractSectionQuery(retrieval.query) # <<>>
    /\ \/ retrieval.env.scan_fails
       \/ SectionPositions(ExtractSectionQuery(retrieval.query)) = {}

\* C7: when the scan raises or no chunk matches the section number, the
\* outcome of _retrieve_by_section is the outcome of the semantic search for
\* the section number text with the same top_k: every semantic call made
\* has these arguments, a successful call's result is returned, and the
\* only error that can leave the method is the semantic search's own.
C7_SectionFallback ==
    SectionCallFallingBack =>
        LET section == ExtractSectionQuery(retrieval.query)
            out == retrieval.out
            calls == out.sem_calls
        IN /\ calls # <<>>
           /\ \A i \in 1..Len(calls) :
                  calls[i].query = section /\ calls[i].top_k = retrieval.top_k
           /\ out.error # "scan"
           /\ (out.status = "ok") <=> ~calls[Len(calls)].raised
           /\ out.status = "ok" =>
                  out.docs = RetrieveBySemantic(collection, section, retrieval.top_k,
                                                retrieval.env)
           /\ out.status = "raised" => out.error = "semantic"

\* the scan raised although the collection holds a matching chunk, and the
\* semantic result for the section number came back, with a chunk that
\* does not carry the section
C7_Witness ==
    /\ SectionCallFallingBack
    /\ retrieval.env.scan_fails
    /\ SectionPositions(ExtractSectionQuery(retrieval.query)) # {}
    /\ retrieval.out.status = "ok"
    /\ \E j \in 1..Len(retrieval.out.docs) :
           ~HasIdentifierOf(retrieval.out.docs[j].metadata,
                            ExtractSectionQuery(retrieval.query))

----------------------------------------------------------------------------
(* Properties of RAGPipeline.run *)

\* the query class with the fixed priority: section, then executive
\* summary, else general
QueryClass(query) ==
    IF PipelineExtractSectionQuery(query) # <<>> THEN "section"
    ELSE IF IsExecutiveSummaryQuery(query) THEN "executive_summary"
    ELSE "general"

TemplateOfClass(class) ==
    IF class = "section" THEN "section"
    ELSE IF class = "executive_summary" THEN "executive_summary"
    ELSE "scientific"

\* the retrieval parameters of a class: an executive-summary query appends
\* " executive summary" and asks for 2 results, the other classes send the
\* query and the caller's top_k
RetrievalOfClass(class, query, top_k) ==
    IF class = "executive_summary"
    THEN <<query \o ExecutiveSummarySuffix, ExecutiveSummaryTopK>>
    ELSE <<query, top_k>>

PromptBuilt == run_call.called /\ "prompt" \in DOMAIN run_call

\* C8 as stated: one class, picked with the priority section, executive
\* summary, general, selects both the retrieval parameters and the prompt
\* template; the prompt embeds the original question.
C8_AsStated ==
    run_call.called =>
        LET class == QueryClass(run_call.query)
        IN /\ <<retrieval.query, retrieval.top_k>>
                  = RetrievalOfClass(class, run_call.query, run_call.top_k)
           /\ PromptBuilt =>
                  /\ run_call.prompt.template = TemplateOfClass(class)
                  /\ run_call.prompt.query = run_call.query

\* C8 amended: the prompt template is selected by the class with the
\* priority section, executive summary, general; the retrieval parameters
\* are selected by the executive-summary test alone (a query with a summary
\* keyword is retrieved as an executive-summary query even when it names a
\* section); the prompt embeds the original question, and a section prompt
\* the section number.
C8_Classification ==
    run_call.called =>
        LET class == QueryClass(run_call.query)
            retrieval_class ==
                IF IsExecutiveSummaryQuery(run_call.query) THEN "executive_summary"
                ELSE class
        IN /\ <<retrieval.query, retrieval.top_k>>
                  = RetrievalOfClass(retrieval_class, run_call.query, run_call.top_k)
           /\ PromptBuilt =>
                  /\ run_call.prompt.template = TemplateOfClass(class)
                  /\ run_call.prompt.query = run_call.query
                  /\ class = "section" =>
                         run_call.prompt.section_number
                             = PipelineExtractSectionQuery(run_call.query)

\* a run of a query that names a section and has a summary keyword: the
\* section prompt was built from an executive-summary retrieval
C8_Witness ==
    /\ PromptBuilt
    /\ PipelineExtractSectionQuery(run_call.query) # <<>>
    /\ IsExecutiveSummaryQuery(run_call.query)
    /\ run_call.top_k # ExecutiveSummaryTopK
    /\ run_call.prompt.template = "section"
    /\ retrieval.top_k = ExecutiveSummaryTopK

RunOk == run_call.called /\ run_call.status = "ok"

\* positions of the retrieved documents whose text occurs at no earlier one
FirstOccurrences(documents) ==
    {i \in 1..Len(documents) :
        \A h \in 1..(i - 1) : documents[h].page_content # documents[i].page_content}

\* the documents at the positions of P, in order
RECURSIVE AtPositions(_, _, _)
AtPositions(documents, P, i) ==
    IF i > Len(documents) THEN <<>>
    ELSE (IF i \in P THEN <<documents[i]>> ELSE <<>>) \o AtPositions(documents, P, i + 1)

\* C9: the context run returns has no two chunks with equal text, is the
\* sequence of the first occurrences of each text in retrieval order, and
\* deduplicating it again returns it unchanged.
C9_Deduplication ==
    RunOk =>
        LET context == run_call.context
            documents == retrieval.out.docs
        IN /\ \A i, j \in 1..Len(context) :
                  i # j => context[i].page_content # context[j].page_content
           /\ context = AtPositions(documents, FirstOccurrences(documents), 1)
           /\ Dedup(context, {}) = context

\* a run whose retrieval returned a text twice, with different metadata,
\* and another text after the first copy
C9_Witness ==
    /\ RunOk
    /\ Len(run_call.context) = 2
    /\ LET documents == retrieval.out.docs
       IN /\ Len(documents) = 3
          /\ documents[1].page_content = documents[3].page_content
          /\ documents[1].metadata # documents[3].metadata
          /\ documents[2].page_content # documents[1].page_content

\* where an identifier is met in the context: <<chunk, piece>> pairs
PieceCount(doc) ==
    IF /\ Truthy(doc.metadata)
       /\ "paragraph_ids" \in DOMAIN doc.metadata
       /\ doc.metadata.paragraph_ids # <<>>
    THEN Len(SplitOn(doc.metadata.paragraph_ids, Comma))
    ELSE 0

Encounters(context, id) ==
    {pr \in UNION {{<<c, k>> : k \in 1..PieceCount(context[c])} : c \in 1..Len(context)} :
        Strip(SplitOn(context[pr[1]].metadata.paragraph_ids, Comma)[pr[2]]) = id}

LexLess(a, b) == a[1] < b[1] \/ (a[1] = b[1] /\ a[2] < b[2])

FirstEncounter(context, id) ==
    CHOOSE pr \in Encounters(context, id) :
        \A other \in Encounters(context, id) : other = pr \/ LexLess(pr, other)

\* C10: paragraph_ids holds exactly the non-empty trimmed identifiers of the
\* metadata of the context chunks, each once, in the order of their first
\* encounter (chunk order, then position in the chunk's identifier string).
C10_ParagraphIds ==
    RunOk =>
        LET ids == run_call.paragraph_ids
            context == run_call.context
        IN /\ \A i, j \in 1..Len(ids) : i # j => ids[i] # ids[j]
           /\ {ids[i] : i \in 1..Len(ids)}
                  = UNION {IdentifiersOf(context[c].metadata) : c \in 1..Len(context)}
                        \ {<<>>}
           /\ \A i, j \in 1..Len(ids) :
                  i < j => LexLess(FirstEncounter(context, ids[i]),
                                   FirstEncounter(context, ids[j]))

\* a run whose context holds the same identifier in two chunks, an
\* identifier written with a blank, and an empty piece
C10_Witness ==
    /\ RunOk
    /\ Len(run_call.context) >= 2
    /\ \E id \in {run_call.paragraph_ids[i] : i \in 1..Len(run_call.paragraph_ids)} :
           Cardinality({pr[1] : pr \in Encounters(run_call.context, id)}) = 2
    /\ \E c \in 1..Len(run_call.context) :
           /\ <<>> \in IdentifiersOf(run_call.context[c].metadata)
           /\ Contains(run_call.context[c].metadata.paragraph_ids, <<Comma, Space>>)
    /\ Len(run_call.paragraph_ids) = 3

----------------------------------------------------------------------------
(* Properties of ChapterRAG.load_chapter and ChapterRAG.ask *)

\* an ask that got as far as pipeline.run
AskRan == last_call.op = "ask" /\ "pipeline" \in DOMAIN last_call

AskedPair == <<last_call.chapter_name, last_call.user_id>>

\* the pairs for whom the items of a collection were stored
StoredForPairs(name) == IF name \in DOMAIN stored_for THEN stored_for[name] ELSE {}

\* C1 (as claimed): distinct (document, user) pairs get different registry
\* keys and different collection names, so ask(q, d, u) runs the pipeline
\* that was built for (d, u) and reads a collection that holds no items
\* stored for another pair.
C1_AsStated ==
    AskRan =>
        /\ built_for[Key(last_call.chapter_name, last_call.user_id)] = AskedPair
        /\ StoredForPairs(last_call.pipeline.collection_name) \subseteq {AskedPair}

----------------------------------------------------------------------------
(* Properties of ingest_html_file *)

IngestCalled == ingest_call # NoIngest

\* the items of a collection of the database (none when it does not exist)
ItemsOf(db, name) == IF HasCollection(db, name) THEN db[name] ELSE <<>>

\* the call was made with force_reingest=False on a collection that
\* existed with a nonzero item count
OnPopulated ==
    /\ IngestCalled
    /\ ~ingest_call.force_reingest
    /\ CountOf(ingest_call.before, ingest_call.collection_name) > 0

\* the next ingestion of the same file into the same collection with
\* force_reingest=False, whatever its chunk size and its environment
NextIngestions ==
    {IngestHtmlFile(chroma_db, ingest_call.file, ingest_call.collection_name, size,
                    FALSE, env) : size \in IngestChunkSizes, env \in IngestEnvs}

\* C11: ingest_html_file with force_reingest=False on a collection that
\* exists with a nonzero item count computes no embedding and leaves every
\* collection of the index as it was, and returns when the path is a file;
\* a call that ingested made at least one embedding call, and a second
\* ingestion of the same file into the same collection after a call that
\* returned computes no embedding and changes nothing.
C11_CacheHitSkip ==
    /\ OnPopulated =>
           /\ ingest_call.embed_calls = 0
           /\ chroma_db = ingest_call.before
           /\ ingest_call.file.is_file => ingest_call.status = "cache_hit"
    /\ (IngestCalled /\ ingest_call.status = "ingested") =>
           ingest_call.embed_calls >= 1
    /\ (IngestCalled /\ ingest_call.status \in {"ingested", "cache_hit"}) =>
           \A next \in NextIngestions :
               /\ next.status = "cache_hit"
               /\ next.embed_calls = 0
               /\ next.db = chroma_db

\* a call with force_reingest=False that found the three chunks an earlier
\* ingestion of the same file had stored
C11_Witness ==
    /\ OnPopulated
    /\ ingest_call.status = "cache_hit"
    /\ ingest_call.file.name = "three.html"
    /\ ingest_call.env = LoadEnv(FALSE, -1, FALSE, FALSE)
    /\ Len(chroma_db[ingest_call.collection_name]) = 3
    /\ \A i \in 1..3 :
           chroma_db[ingest_call.collection_name][i].document
               = Split(ingest_call.file.content, 3)[i].page_content

\* the chunks the splitter gives for the file of the call
CallChunks == Split(ingest_call.file.content, ingest_call.chunk_size)

\* the call raised in add_documents
StoreCrashed == IngestCalled /\ ingest_call.status = "StoreError"

\* C12: an error in the middle of add_documents keeps the chunks stored
\* before it (on a collection that was absent or empty: the first chunks
\* of the file, fewer than all), and when at least one item is in the
\* collection the next ingestion with force_reingest=False is a cache hit
\* that stores none of the missing chunks.
C12_PartialIngestionCached ==
    StoreCrashed =>
        LET name == ingest_call.collection_name
            stored == chroma_db[name]
        IN /\ CountOf(ingest_call.before, name) = 0 =>
                  /\ Len(stored) = ingest_call.env.add_failure
                  /\ Len(stored) < Len(CallChunks)
                  /\ \A i \in 1..Len(stored) :
                         stored[i].document = CallChunks[i].page_content
           /\ Len(stored) > 0 =>
                  \A next \in NextIngestions :
                      next.status = "cache_hit" /\ next.db = chroma_db

\* an ingestion of three chunks into a new collection that raised when two
\* were stored
C12_Witness ==
    /\ StoreCrashed
    /\ ~HasCollection(ingest_call.before, ingest_call.collection_name)
    /\ Len(CallChunks) = 3
    /\ Len(chroma_db[ingest_call.collection_name]) = 2


\* the call ran the chunker, which returned no chunk
ChunkerGaveNothing ==
    /\ IngestCalled
    /\ ingest_call.file.is_file
    /\ ~CacheHit(ingest_call.before, ingest_call.collection_name,
                 ingest_call.force_reingest)
    /\ CallChunks = <<>>

\* C17: when the chunker returns no chunk for the file ingest_html_file
\* raises ValueError; when it raises ValueError no embedding was computed,
\* no collection was created and no item was added to any collection.
C17_NoChunksNothingStored ==
    /\ ChunkerGaveNothing => ingest_call.status = "ValueError"
    /\ (IngestCalled /\ ingest_call.status = "ValueError") =>
          /\ ChunkerGaveNothing
          /\ ingest_call.embed_calls = 0
          /\ DOMAIN chroma_db = DOMAIN ingest_call.before
          /\ chroma_db = ingest_call.before

\* a file without text ingested into a collection that does not exist, in
\* a database that holds another collection
C17_Witness ==
    /\ ChunkerGaveNothing
    /\ ingest_call.status = "ValueError"
    /\ ~HasCollection(ingest_call.before, ingest_call.collection_name)
    /\ ingest_call.before # NoCollections

\* the call returned after storing, on a collection that was absent or empty
IngestedIntoEmpty ==
    /\ IngestCalled
    /\ ingest_call.status = "ingested"
    /\ CountOf(ingest_call.before, ingest_call.collection_name) = 0

\* C18: after ingest_html_file has returned without a cache hit on a
\* collection that was absent or empty, the collection holds exactly one
\* item per chunk of the chunker, in chunk order, under distinct ids, with
\* the chunk's text and metadata; the other collections are as they were.
C18_OneItemPerChunk ==
    IngestedIntoEmpty =>
        LET name == ingest_call.collection_name
            stored == chroma_db[name]
        IN /\ Len(stored) = Len(CallChunks)
           /\ Len(stored) > 0
           /\ \A i \in 1..Len(stored) :
                  /\ stored[i].document = CallChunks[i].page_content
                  /\ stored[i].metadata = CallChunks[i].metadata
           /\ \A i, j \in 1..Len(stored) : stored[i].id = stored[j].id => i = j
           /\ \A other \in DOMAIN ingest_call.before \ {name} :
                  /\ other \in DOMAIN chroma_db
                  /\ chroma_db[other] = ingest_call.before[other]

\* a file of three chunks ingested into a collection that existed without
\* items
C18_Witness ==
    /\ IngestedIntoEmpty
    /\ HasCollection(ingest_call.before, ingest_call.collection_name)
    /\ Len(CallChunks) = 3
    /\ Len(chroma_db[ingest_call.collection_name]) = 3

----------------------------------------------------------------------------
(* Properties of the registry of ChapterRAG *)

LoadCalled == last_call.op = "load_chapter"

LoadedPair == <<last_call.chapter_name, last_call.user_id>>

LoadedKey == Key(last_call.chapter_name, last_call.user_id)

\* the call is a load of a pair whose own earlier load was registered
SecondLoad ==
    /\ LoadCalled
    /\ LoadedKey \in DOMAIN last_call.before.pipelines
    /\ built_for[LoadedKey] = LoadedPair

\* C13: a load_chapter call for a (document, user) pair that the same
\* ChapterRAG has loaded before is a no-op: it makes no ingestion call,
\* constructs no pipeline, and leaves the registry and the database as they
\* were.
C13_SecondLoadNoOp ==
    SecondLoad =>
        /\ last_call.status = "already_loaded"
        /\ last_call.ingest_calls = 0
        /\ last_call.built = 0
        /\ pipelines = last_call.before.pipelines
        /\ chroma_db = last_call.before.db

\* a second load of a pair whose file is there and whose collection holds
\* items
C13_Witness ==
    /\ SecondLoad
    /\ last_call.html_file # NoFile
    /\ HasCollection(chroma_db, pipelines[LoadedKey].collection_name)
    /\ Len(chroma_db[pipelines[LoadedKey].collection_name]) > 0


\* the exceptions that leave load_chapter from the ingestion or from the
\* construction of the pipeline
LoadErrors == {"FileNotFoundError", "ValueError", "EmbedError", "StoreError", "ModelError"}

\* the call ran load_chapter's body: load_chapter itself, or ask for a key
\* that was not registered
LoadRan ==
    /\ last_call.op \in {"load_chapter", "ask"}
    /\ LoadedKey \notin DOMAIN last_call.before.pipelines

\* the file search of the load found a path (an ask that goes on to run its
\* pipeline has found one)
FileFound == "html_file" \in DOMAIN last_call => last_call.html_file # NoFile

\* the load raised in ingest_html_file or in the construction of the pipeline
LoadRaised == LoadRan /\ last_call.status \in LoadErrors /\ last_call.ingest_calls = 1

\* C14: when the ingestion or the construction of the pipeline raises in
\* load_chapter (or in the automatic load of ask) the caller gets the
\* exception (ask does not go on to run a pipeline), the registry is as it
\* was and has no entry for the key; a load for a key that is not registered
\* attempts the ingestion again; every registered key was registered by a
\* load that completed.
C14_FailedLoadUnregistered ==
    /\ LoadRaised =>
          /\ LoadedKey \notin DOMAIN pipelines
          /\ pipelines = last_call.before.pipelines
          /\ "question" \notin DOMAIN last_call
    /\ (LoadRan /\ FileFound) => last_call.ingest_calls = 1
    /\ DOMAIN pipelines = DOMAIN built_for

\* a load that raised after an earlier attempt had created the collection
C14_Witness ==
    /\ LoadRaised
    /\ HasCollection(last_call.before.db,
                     CollectionName(last_call.chapter_name, last_call.user_id))
    /\ last_call.status = "ModelError"


\* the call is a load_chapter or an ask for a key that was registered and
\* whose collection had been deleted from the database
CalledAfterDelete ==
    /\ last_call.op \in {"load_chapter", "ask"}
    /\ LoadedKey \in DOMAIN last_call.before.pipelines
    /\ ~HandleValid(last_call.before.pipelines[LoadedKey], last_call.before.db,
                    last_call.before.deletions, FALSE)

\* C15 (as claimed): after delete_collection has deleted the collection of
\* a registered key the key is not treated as loaded, so the next
\* load_chapter or ask for it ingests the document again; no call other
\* than delete_collection takes a key out of the registry.
C15_AsStated ==
    /\ CalledAfterDelete =>
          /\ last_call.status # "already_loaded"
          /\ last_call.ingest_calls = 1
    /\ last_call.op \in {"load_chapter", "ask"} =>
          DOMAIN last_call.before.pipelines \subseteq DOMAIN pipelines


\* the source of the load is missing: the file search found nothing, or the
\* path it found is not a file
SourceMissing ==
    /\ LoadRan
    /\ "html_file" \in DOMAIN last_call
    /\ last_call.html_file = NoFile \/ ~last_call.html_file.is_file

\* C16: a load whose file search finds nothing, and a load whose
\* ingest_html_file call gets a path that is not a file, raise
\* FileNotFoundError; whenever a load raises FileNotFoundError no collection
\* was created or changed and no key was registered.
C16_MissingSourceNoMutation ==
    /\ SourceMissing => last_call.status = "FileNotFoundError"
    /\ (LoadRan /\ last_call.status = "FileNotFoundError") =>
          /\ SourceMissing
          /\ chroma_db = last_call.before.db
          /\ pipelines = last_call.before.pipelines
          /\ LoadedKey \notin DOMAIN pipelines

\* ingest_html_file raised for a path that is not a file while the database
\* held collections
C16_Witness ==
    /\ SourceMissing
    /\ last_call.html_file # NoFile
    /\ last_call.ingest_calls = 1
    /\ last_call.before.db # NoCollections

\* load_chapter raised because the file search found nothing
C16_NoFileReached ==
    /\ SourceMissing
    /\ last_call.html_file = NoFile
    /\ last_call.ingest_calls = 0


----------------------------------------------------------------------------
(* Properties of ChapterManager *)

\* query_chapter has run a pipeline
QueryRan == manager_call.op = "query_chapter" /\ "pipeline" \in DOMAIN manager_call

\* C19 (as claimed): query_chapter(c, q, u) runs the pipeline whose
\* retriever reads the collection named for (c, u), whoever loaded or
\* queried the chapter before.
C19_AsStated ==
    QueryRan =>
        manager_call.pipeline.collection_name
            = ManagerCollectionName(manager_call.chapter_path, manager_call.user_id)


----------------------------------------------------------------------------
(* Properties of RAGPipeline.run on a retrieval without matching chunks *)

\* the retrieve call of the run returned (with documents or with none)
RetrievalReturned ==
    /\ run_call.called
    /\ retrieval.called
    /\ retrieval.out.status = "ok"

\* no document of a list carries identifiers
NoIdentifiers(docs) == \A i \in 1..Len(docs) : IdsOfDoc(docs[i]) = <<>>

\* the result has the keys answer, context and paragraph_ids; its context
\* holds retrieved documents; paragraph_ids is empty when no document of
\* the context carries identifiers
WellFormed ==
    /\ {"answer", "context", "paragraph_ids"} \subseteq DOMAIN run_call
    /\ \A i \in 1..Len(run_call.context) :
           \E j \in 1..Len(retrieval.out.docs) :
               run_call.context[i] = retrieval.out.docs[j]
    /\ NoIdentifiers(run_call.context) => run_call.paragraph_ids = <<>>
    /\ retrieval.out.docs = <<>> =>
           run_call.context = <<>> /\ run_call.paragraph_ids = <<>>

C20_NoIdentifiersReached ==
    /\ RetrievalReturned
    /\ run_call.model = "fake_llm"
    /\ run_call.status = "ok"
    /\ run_call.context # <<>>
    /\ NoIdentifiers(run_call.context)


----------------------------------------------------------------------------
(* Further properties of HtmlTextSplitter.split *)

\* C24 (as claimed): every chunk split emits has a non-empty text and holds
\* the text of at least one element.
C24_AsStated ==
    \A k \in 1..Len(chunks) :
        /\ chunks[k].page_content # <<>>
        /\ OwnedBy(k) # {}


----------------------------------------------------------------------------
(* Further properties of RAGPipeline.run *)

\* C25 (as claimed): run asks the retriever for at most the caller's top_k
\* chunks, also for an executive-summary query, and returns a context of at
\* most top_k chunks.
C25_AsStated ==
    run_call.called =>
        /\ retrieval.top_k <= run_call.top_k
        /\ RunOk => Len(run_call.context) <= run_call.top_k


----------------------------------------------------------------------------
(* Properties of add_documents on a populated collection *)

\* the call reached add_documents, and no collection.add failed for a
\* reason of its own
AddRan ==
    /\ IngestCalled
    /\ ingest_call.status \in {"ingested", "StoreError"}
    /\ ingest_call.env.add_failure = -1

\* C26 (as claimed): add_documents(docs) gives every document an id that is
\* not in the collection, whatever the collection holds: it returns, the
\* item count has grown by len(docs), and the items stored before are still
\* there, unchanged.
C26_AsStated ==
    AddRan =>
        LET name == ingest_call.collection_name
            old == ItemsOf(ingest_call.before, name)
            stored == chroma_db[name]
        IN /\ ingest_call.status = "ingested"
           /\ Len(stored) = Len(old) + Len(CallChunks)
           /\ SubSeq(stored, 1, Len(old)) = old

\* the call was a forced ingestion of a file into a collection that held
\* exactly the chunks of that file, and it returned
ForcedAgain ==
    /\ IngestCalled
    /\ ingest_call.force_reingest
    /\ ingest_call.status = "ingested"
    /\ LET old == ItemsOf(ingest_call.before, ingest_call.collection_name)
       IN /\ Len(old) = Len(CallChunks)
          /\ \A i \in 1..Len(old) :
                 /\ old[i].document = CallChunks[i].page_content
                 /\ old[i].metadata = CallChunks[i].metadata

\* C27 (as claimed): after a forced ingestion of a file into a collection
\* that already held the file's chunks the collection holds each chunk of
\* the file exactly once.
C27_AsStated ==
    ForcedAgain =>
        LET stored == chroma_db[ingest_call.collection_name]
        IN /\ Len(stored) = Len(CallChunks)
           /\ \A i \in 1..Len(stored) :
                  stored[i].document = CallChunks[i].page_content


----------------------------------------------------------------------------
(* Further properties of ChromaVectorStore.retrieve *)

\* an identifier of section S itself or of one of its subsections: it
\* begins with S, and S is not followed by a further digit of the same
\* number (4.10 is not in section 4.1; 4.1, 4.1.2 and 4.1_p3 are)
InSection(id, section) ==
    /\ StartsWith(id, section)
    /\ Len(id) > Len(section) => id[Len(section) + 1] \notin Digits

\* the section scan of a retrieve call returned its matches
SectionScanReturned ==
    /\ retrieval.called
    /\ ExtractSectionQuery(retrieval.query) # <<>>
    /\ retrieval.out.status = "ok"
    /\ retrieval.out.sem_calls = <<>>

\* C28 (as claimed): every chunk the section scan returns for section
\* number S carries an identifier of section S or of a subsection of S.
C28_AsStated ==
    SectionScanReturned =>
        \A j \in 1..Len(retrieval.out.docs) :
            \E id \in IdentifiersOf(retrieval.out.docs[j].metadata) :
                InSection(id, ExtractSectionQuery(retrieval.query))


----------------------------------------------------------------------------
(* The identifier list from the chunker to RAGPipeline.run *)

\* C29 (as claimed): for every chunk of a finished split, decoding its
\* paragraph_ids string as RAGPipeline.run does (split on commas, trim, drop
\* the empty pieces) gives the identifiers the chunker recorded for the
\* chunk, in order.
C29_AsStated ==
    SplitDone =>
        \A k \in 1..Len(chunks) : IdsOfDoc(chunks[k]) = DeclaredIds(Owned(k))


----------------------------------------------------------------------------
(* Properties of TransformersModel.generate *)

GenerateCalled == generate_call # NoGenerate

\* C21: a generate call makes at most two generation attempts; the second
\* is made exactly when the first raised the RuntimeError of sampling, and
\* it is made once, without sampling; the call then returns or raises what
\* the second attempt returns or raises; any other error of the first
\* attempt leaves the call after one attempt.
C21_RetryOnce ==
    GenerateCalled =>
        LET out == generate_call.out
            first == generate_call.first
            retry == generate_call.retry
        IN /\ Len(out.attempts) \in {1, 2}
           /\ out.attempts[1].do_sample
           /\ Len(out.attempts) = 2 <=> first = ProbabilityTensor
           /\ Len(out.attempts) = 2 =>
                  /\ ~out.attempts[2].do_sample
                  /\ out.attempts[2].outcome = retry
                  /\ retry = "ok" => out.status = "ok"
                  /\ retry # "ok" => out.status = "raised" /\ out.error = retry
           /\ first \notin {"ok", ProbabilityTensor} =>
                  out.status = "raised" /\ out.error = first
           /\ first = "ok" => out.status = "ok"

\* a call on the direct path whose first attempt raised the sampling error
\* and whose retry raised it again
C21_Witness ==
    /\ GenerateCalled
    /\ ~generate_call.use_pipeline
    /\ generate_call.first = ProbabilityTensor
    /\ generate_call.out.status = "raised"
    /\ generate_call.out.error = ProbabilityTensor
    /\ Len(generate_call.out.attempts) = 2


----------------------------------------------------------------------------
(* Properties of the command line *)

\* a load-chapter --force command has exited with code 0 on a chapter whose
\* collection held data when it started
ForcedOnCached ==
    /\ cli_call # NoCommand
    /\ cli_call.force
    /\ cli_call.exit_code = 0
    /\ ItemsOf(cli_call.before, CollectionName(cli_call.chapter, cli_call.user_id)) # <<>>

\* C22 as stated: load-chapter --force on a chapter whose collection is
\* cached leaves the database as ingest_html_file with force_reingest=True
\* leaves it: the chunks of the file are embedded and stored again.
C22_AsStated ==
    ForcedOnCached =>
        LET collection_name == CollectionName(cli_call.chapter, cli_call.user_id)
            forced == IngestHtmlFile(cli_call.before, cli_call.html_file, collection_name,
                                     DefaultChunkSize, cli_call.force, cli_call.env)
        IN /\ forced.status = "ingested"
           /\ chroma_db = forced.db


----------------------------------------------------------------------------
(* Properties of IPCCPipeline._process_source *)

\* the enabled stages, in the order of _process_source
RECURSIVE EnabledStages(_, _)
EnabledStages(enabled, i) ==
    IF i > Len(StageNames) THEN <<>>
    ELSE (IF enabled[StageNames[i]] THEN <<StageNames[i]>> ELSE <<>>)
             \o EnabledStages(enabled, i + 1)

\* the stages that ran, without the quality checks
StagesRan == SelectSeq(process_call.out.ran, LAMBDA step : step # QualityChecks)

\* C23 as stated: whatever the combination of the six enabled flags, a
\* _process_source call in which no component raises completes without
\* error and has run exactly the enabled stages.
C23_AsStated ==
    (process_call.called /\ process_call.fails = NoName) =>
        /\ process_call.out.status = "completed"
        /\ StagesRan = EnabledStages(process_call.enabled, 1)


----------------------------------------------------------------------------
(* Properties of FAISSVectorStore.search *)

\* a search has returned on an index that holds fewer vectors than top_k,
\* one for each document
SearchedSmallIndex ==
    /\ search_call.called
    /\ search_call.status = "ok"
    /\ Len(faiss_index.vectors) = Len(faiss_documents)
    /\ Len(faiss_index.vectors) < search_call.top_k

\* C30 as stated: a search with top_k above the number n of documents of
\* the index returns at most n entries, each of them a document the index
\* matched, and none of them twice.
C30_AsStated ==
    SearchedSmallIndex =>
        LET results == search_call.results
        IN /\ Len(results) <= Len(faiss_documents)
           /\ \A j \in 1..Len(results) : results[j].idx # MissingLabel
           /\ \A j, k \in 1..Len(results) :
                  j # k => PyPosition(faiss_documents, results[j].idx)
                               # PyPosition(faiss_documents, results[k].idx)

====
